---- MODULE Spec2Model ----
(***************************************************************************)
(* A model of the SemiRoute routing engine (backend/routing, backend/main). *)
(*                                                                         *)
(* Lengths are integers in units of 5 micrometres (0.005 mm), so that      *)
(* every threshold of the code is a whole number: clearance 0.2 mm = 40,   *)
(* grid_resolution 0.025 mm = 5, the 45-degree tolerance 0.01 mm = 2, the  *)
(* dedup distance 0.05 mm = 10.  Floating-point results are rounded to the *)
(* unit.  A net_id of None is the integer NoNet (-1); real nets are >= 0.   *)
(***************************************************************************)
EXTENDS Integers, Sequences, FiniteSets, TLC

VARIABLES
    traces,               \* PendingTraceStore._traces: insertion-ordered dict, as a sequence of traces
    blocked_cells_cache,  \* PendingTraceStore._blocked_cells_cache: layer -> set of cells
    ret,                  \* what the last store call returned
    astar_in,             \* the arguments of the running grid search
    open_set,             \* astar_search: the heap, as the set of its entries (f, g, x, y, direction)
    closed_set,           \* astar_search: closed_set
    g_scores,             \* astar_search: g_scores, cell -> cost
    came_from,            \* astar_search: came_from, cell -> parent cell
    iterations,           \* astar_search: iterations
    astar_out,            \* position of the search (pc), _reconstruct_path's locals, the returned path
    opt_in,               \* PathOptimizer.optimize: the path passed in
    opt_points,           \* PathOptimizer.optimize: points
    opt_pc,               \* PathOptimizer.optimize: the pass that runs next
    hull_map,             \* the HullMap of the routed layer: _hulls, _pending_hulls, _grid
    route_in,             \* the arguments of the last TraceRouter.route call, and what it found
    walk,                 \* WalkaroundRouter._route_segment: its locals
    route_out,            \* position of the route call (pc) and what it returned
    board,                \* the parsed board (PCBParser) and the options the TraceRouter was built with
    board_out,            \* the last query on the board's obstacle representations and its answer
    expanded_cache,       \* ObstacleMap._expanded_cache of the router's cached maps: layer -> key -> cells
    auto                  \* AutoRouter.auto_route: its position, the attempts made so far, the result

storeVars == <<traces, blocked_cells_cache, ret>>

astarVars == <<astar_in, open_set, closed_set, g_scores, came_from, iterations, astar_out>>

optVars == <<opt_in, opt_points, opt_pc>>

routeVars == <<hull_map, route_in, walk, route_out>>

boardVars == <<board, board_out, expanded_cache>>

autoVars == <<auto>>

nonStoreVars == <<astarVars, optVars, routeVars, boardVars, autoVars>>

nonAstarVars == <<storeVars, optVars, routeVars, boardVars, autoVars>>

nonOptVars == <<storeVars, astarVars, routeVars, boardVars, autoVars>>

nonRouteVars == <<storeVars, astarVars, optVars, boardVars, autoVars>>

nonBoardVars == <<storeVars, astarVars, optVars, routeVars, autoVars>>

vars == <<storeVars, astarVars, optVars, routeVars, boardVars, autoVars>>

\* ------------------------------------------------------------------ basics

NoNet == -1

Layers == {"F.Cu", "B.Cu"}

Abs(x) == IF x < 0 THEN -x ELSE x

Min2(a, b) == IF a <= b THEN a ELSE b

Max2(a, b) == IF a >= b THEN a ELSE b

Sign(x) == IF x > 0 THEN 1 ELSE IF x < 0 THEN -1 ELSE 0

DistSq(a, b) == (b[1] - a[1]) * (b[1] - a[1]) + (b[2] - a[2]) * (b[2] - a[2])

\* round(x) of Python 3 for the rational n/d, d > 0: to nearest, ties to even.
RoundHalfEven(n, d) ==
    LET q == n \div d
        r == n - q * d
    IN  IF 2 * r < d THEN q
        ELSE IF 2 * r > d THEN q + 1
        ELSE IF q % 2 = 0 THEN q ELSE q + 1

\* floor(sqrt(n)) for n >= 0, by bisection.
RECURSIVE ISqrtIn(_, _, _)
ISqrtIn(n, lo, hi) ==
    IF lo >= hi THEN lo
    ELSE LET mid == (lo + hi + 1) \div 2
         IN  IF mid * mid <= n THEN ISqrtIn(n, mid, hi) ELSE ISqrtIn(n, lo, mid - 1)

ISqrt(n) == IF n <= 0 THEN 0 ELSE ISqrtIn(n, 0, Min2(n, 46340))

\* No optimisation is running.
OptIdle ==
    /\ opt_in = << >>
    /\ opt_points = << >>
    /\ opt_pc = "idle"

\* No TraceRouter exists: no hull map is built and no route is called.
RouteIdle ==
    /\ hull_map = [hulls |-> << >>, pending_hulls |-> << >>, grid |-> << >>]
    /\ route_in = << >>
    /\ walk = << >>
    /\ route_out = [pc |-> "idle"]

\* No auto_route call is running.
AutoIdle == auto = [pc |-> "idle"]

\* No board is loaded and nothing was asked about one.
BoardIdle ==
    /\ board = << >>
    /\ board_out = [op |-> "idle"]
    /\ expanded_cache = << >>

\* ------------------------------------------------------ pending trace store

\* grid_resolution of the store, 0.025 mm.
StoreResolution == 5

\* The bounded inputs of the store operations.
TraceIds == {"a", "b"}

StorePolylines ==
    { << <<0, 0>>, <<0, 0>> >>,
      << <<5, 5>>, <<5, 15>>, <<17, 21>> >> }

StoreWidths == {10}

StoreNets == {NoNet, 1}

StoreClearances == {5, 10}

PendingTrace(id, segments, width, layer, net_id) ==
    [id |-> id, segments |-> segments, width |-> width, layer |-> layer, net_id |-> net_id]

\* Position of the key in the dict, 0 when absent.
RECURSIVE DictIndex(_, _, _)
DictIndex(d, id, i) ==
    IF i > Len(d) THEN 0
    ELSE IF d[i].id = id THEN i
    ELSE DictIndex(d, id, i + 1)

\* A list in place of the dict: the new trace is appended whatever its id.
DictSetAppend(d, t) == Append(d, t)

\* d[key] = value of a Python dict: an existing key keeps its position.
DictSet(d, t) ==
    LET i == DictIndex(d, t.id, 1)
    IN  IF i = 0 THEN Append(d, t) ELSE [d EXCEPT ![i] = t]

\* d.pop(key, None): the dict without the key.
DictPop(d, id) ==
    LET i == DictIndex(d, id, 1)
    IN  IF i = 0 THEN d
        ELSE [k \in 1..(Len(d) - 1) |-> IF k < i THEN d[k] ELSE d[k + 1]]

\* The cache left as it is.
CacheKeep(cache, layer) == cache

\* cache.pop(layer, None)
CachePop(cache, layer) == [l \in (DOMAIN cache) \ {layer} |-> cache[l]]

to_grid(x, y, resolution) ==
    <<RoundHalfEven(x, resolution), RoundHalfEven(y, resolution)>>

\* The square of cells of half-side cell_radius around a cell.
CellSquare(g, cell_radius) ==
    { <<g[1] + dx, g[2] + dy>> : dx \in (-cell_radius)..cell_radius,
                                 dy \in (-cell_radius)..cell_radius }

\* The cells one segment of a trace blocks (the body of the loop over i).
SegmentCells(p1, p2, cell_radius, resolution) ==
    LET dx == p2[1] - p1[1]
        dy == p2[2] - p1[2]
        len_sq == dx * dx + dy * dy
    IN  IF len_sq = 0
        THEN CellSquare(to_grid(p1[1], p1[2], resolution), cell_radius)
        ELSE LET steps == Max2(ISqrt(len_sq \div (resolution * resolution)), 1)
             IN  UNION { CellSquare(
                             <<RoundHalfEven(p1[1] * steps + step * dx, steps * resolution),
                               RoundHalfEven(p1[2] * steps + step * dy, steps * resolution)>>,
                             cell_radius) : step \in 0..steps }

\* The cells one trace blocks for a clearance.
TraceCells(t, clearance, resolution) ==
    IF Len(t.segments) < 2 THEN {}
    ELSE LET cell_radius == ((t.width + 2 * clearance) \div (2 * resolution)) + 1
         IN  UNION { SegmentCells(t.segments[i], t.segments[i + 1], cell_radius, resolution)
                     : i \in 1..(Len(t.segments) - 1) }

\* The computation of get_blocked_cells below its cache test.
ComputeBlockedCells(d, layer, clearance, exclude_net_id) ==
    UNION { TraceCells(d[i], clearance, StoreResolution)
            : i \in { k \in 1..Len(d) :
                        /\ d[k].layer = layer
                        /\ ~(exclude_net_id # NoNet /\ d[k].net_id = exclude_net_id) } }

\* Does get_blocked_cells answer from the cache?
CacheHit(cache, layer, exclude_net_id) ==
    exclude_net_id = NoNet /\ layer \in DOMAIN cache

NoReturn == [op |-> "none"]

StoreInit ==
    /\ traces = << >>
    /\ blocked_cells_cache = << >>
    /\ ret = NoReturn

\* No grid search is running.
AstarIdle ==
    /\ astar_in = [mode |-> "none"]
    /\ open_set = {}
    /\ closed_set = {}
    /\ g_scores = << >>
    /\ came_from = << >>
    /\ iterations = 0
    /\ astar_out = [pc |-> "idle"]

add_trace(trace_id, segments, width, layer, net_id) ==
    /\ traces' = DictSet(traces, PendingTrace(trace_id, segments, width, layer, net_id))
    /\ blocked_cells_cache' = CachePop(blocked_cells_cache, layer)
    /\ ret' = [op |-> "add_trace"]
    /\ UNCHANGED nonStoreVars

remove_trace(trace_id) ==
    LET i == DictIndex(traces, trace_id, 1)
    IN  /\ traces' = DictPop(traces, trace_id)
        /\ blocked_cells_cache' =
               IF i = 0 THEN blocked_cells_cache
               ELSE CachePop(blocked_cells_cache, traces[i].layer)
        /\ ret' = [op |-> "remove_trace", found |-> (i # 0)]
        /\ UNCHANGED nonStoreVars

clear ==
    /\ traces' = << >>
    /\ blocked_cells_cache' = << >>
    /\ ret' = [op |-> "clear"]
    /\ UNCHANGED nonStoreVars

get_blocked_cells(layer, clearance, exclude_net_id) ==
    LET cells == IF CacheHit(blocked_cells_cache, layer, exclude_net_id)
                 THEN blocked_cells_cache[layer]
                 ELSE ComputeBlockedCells(traces, layer, clearance, exclude_net_id)
    IN  /\ blocked_cells_cache' =
               IF exclude_net_id = NoNet /\ layer \notin DOMAIN blocked_cells_cache
               THEN [l \in (DOMAIN blocked_cells_cache) \cup {layer} |->
                        IF l = layer THEN cells ELSE blocked_cells_cache[l]]
               ELSE blocked_cells_cache
        /\ ret' = [op |-> "get_blocked_cells", layer |-> layer, clearance |-> clearance,
                   exclude_net_id |-> exclude_net_id, cells |-> cells]
        /\ UNCHANGED <<traces, nonStoreVars>>

StoreNext ==
    \/ \E id \in TraceIds, s \in StorePolylines, w \in StoreWidths, l \in Layers, n \in StoreNets :
           add_trace(id, s, w, l, n)
    \/ \E id \in TraceIds : remove_trace(id)
    \/ clear
    \/ \E l \in Layers, c \in StoreClearances, n \in StoreNets : get_blocked_cells(l, c, n)

InitStore == StoreInit /\ AstarIdle /\ OptIdle /\ RouteIdle /\ BoardIdle /\ AutoIdle

SpecStore == InitStore /\ [][StoreNext]_vars

\* C5: whenever get_blocked_cells(layer, clearance) is called without an excluded
\* net, after any sequence of add_trace, remove_trace, clear and get_blocked_cells,
\* the set it returns is exactly the set a fresh computation over the traces now
\* on that layer, with that clearance, gives.
C5_CachedEqualsFresh ==
    (ret.op = "get_blocked_cells" /\ ret.exclude_net_id = NoNet)
        => ret.cells = ComputeBlockedCells(traces, ret.layer, ret.clearance, NoNet)

\* A call answered with cells although no trace is left on the layer.
C5_StaleAnswer ==
    /\ ret.op = "get_blocked_cells"
    /\ ret.exclude_net_id = NoNet
    /\ ret.cells # {}
    /\ \A i \in 1..Len(traces) : traces[i].layer # ret.layer

\* ------------------------------------------------------------ grid search
\* astar_search and astar_search_element_aware.  Costs are floats in the code;
\* here they are integers in millionths, sqrt(2) = 1.414214.

DIRECTIONS ==
    << <<0, -1>>, <<1, -1>>, <<1, 0>>, <<1, 1>>, <<0, 1>>, <<-1, 1>>, <<-1, 0>>, <<-1, -1>> >>

DIRECTION_COSTS(dir_idx) ==
    IF DIRECTIONS[dir_idx + 1][1] # 0 /\ DIRECTIONS[dir_idx + 1][2] # 0 THEN 1414214 ELSE 1000000

TURN_PENALTIES(dir_diff) ==
    CASE dir_diff = 0 -> 0
      [] dir_diff = 1 -> 100000
      [] dir_diff = 2 -> 500000
      [] dir_diff = 3 -> 1500000
      [] dir_diff = 4 -> 3000000
      [] OTHER -> 500000

\* Octile distance.
heuristic(x1, y1, x2, y2) ==
    LET dx == Abs(x2 - x1)
        dy == Abs(y2 - y1)
    IN  Max2(dx, dy) * 1000000 + 414214 * Min2(dx, dy)

\* h * HEURISTIC_WEIGHT, the weight being 1.5.
Weighted(h) == (3 * h) \div 2

\* The search's cap on popped nodes.
max_iterations == 100000

\* grid_resolution of the obstacle maps, 0.025 mm.
GridResolution == 5

\* The bounded inputs of a search: the board's grid is 0..GridMaxX by 0..GridMaxY.
GridMaxX == 3

GridMaxY == 2

\* A small cap on popped nodes, next to the code's own, so that the cap is reached.
SmallIterationCap == 3

SearchEndpoints == { <<0, 0>>, <<2, 3>>, <<15, 10>>, <<13, 8>>, <<15, 0>> }

BlockedPatterns ==
    { {},
      { <<1, 0>> },
      { <<1, 1>> },
      { <<1, 0>>, <<1, 1>> },
      { <<2, 1>>, <<3, 1>> },
      { <<1, 0>>, <<1, 1>>, <<1, 2>> },
      { <<2, 0>>, <<2, 1>>, <<2, 2>>, <<3, 2>> } }

ExtraPatterns == { {}, { <<2, 1>> }, { <<1, 2>>, <<2, 2>> } }

AllowedPatterns == { {}, { <<1, 1>> } }

AstarInputs ==
    [ mode : {"grid", "element_aware"},
      start : SearchEndpoints,
      end : SearchEndpoints,
      blocked : BlockedPatterns,
      extra : ExtraPatterns,
      allowed : AllowedPatterns,
      cap : {SmallIterationCap, max_iterations} ]

start_g == <<RoundHalfEven(astar_in.start[1], GridResolution),
             RoundHalfEven(astar_in.start[2], GridResolution)>>

end_g == <<RoundHalfEven(astar_in.end[1], GridResolution),
           RoundHalfEven(astar_in.end[2], GridResolution)>>

InBounds(c) == 0 <= c[1] /\ c[1] <= GridMaxX /\ 0 <= c[2] /\ c[2] <= GridMaxY

\* The blocked test of a cell.  astar_search: in the (expanded) blocked set or the
\* pending set, and not allowed.  astar_search_element_aware: the map's is_blocked
\* answers yes (blocked is the set of cells where it does), or a pending trace is
\* too close (extra is the set of cells where _point_blocked_by_pending holds).
is_blocked(c) ==
    IF astar_in.mode = "grid"
    THEN (c \in astar_in.blocked \/ c \in astar_in.extra) /\ c \notin astar_in.allowed
    ELSE c \in astar_in.blocked \/ c \in astar_in.extra

\* The corner test with only the first side cell looked at.
CornersFreeOneSide(cx, cy, dx, dy) ==
    (dx # 0 /\ dy # 0) => ~is_blocked(<<cx + dx, cy>>)

\* Both side cells of a diagonal step are free.
CornersFree(cx, cy, dx, dy) ==
    (dx # 0 /\ dy # 0) => (~is_blocked(<<cx + dx, cy>>) /\ ~is_blocked(<<cx, cy + dy>>))

\* (f, g, x, y, direction) tuples compare lexicographically in the heap.
RECURSIVE LexLess(_, _, _)
LexLess(a, b, i) ==
    IF i > Len(a) THEN FALSE
    ELSE IF a[i] # b[i] THEN a[i] < b[i]
    ELSE LexLess(a, b, i + 1)

\* heapq.heappop: the least entry.
HeapTop == CHOOSE e \in open_set : \A o \in open_set : o = e \/ LexLess(e, o, 1)

move_cost(c_dir, dir_idx) ==
    LET d == Abs(dir_idx - c_dir)
        dir_diff == IF d > 4 THEN 8 - d ELSE d
    IN  DIRECTION_COSTS(dir_idx)
            + (IF c_dir >= 0 /\ c_dir # dir_idx THEN TURN_PENALTIES(dir_diff) ELSE 0)

\* The expansion loop without its blocked test.
NeighborAcceptedBlocked(cur, dir_idx) ==
    LET dx == DIRECTIONS[dir_idx + 1][1]
        dy == DIRECTIONS[dir_idx + 1][2]
        npos == <<cur[3] + dx, cur[4] + dy>>
        new_g == cur[2] + move_cost(cur[5], dir_idx)
    IN  /\ InBounds(npos)
        /\ npos \notin closed_set
        /\ CornersFree(cur[3], cur[4], dx, dy)
        /\ ~(npos \in DOMAIN g_scores /\ g_scores[npos] <= new_g)

\* The neighbour in direction dir_idx passes every `continue` of the expansion loop.
NeighborAccepted(cur, dir_idx) ==
    LET dx == DIRECTIONS[dir_idx + 1][1]
        dy == DIRECTIONS[dir_idx + 1][2]
        npos == <<cur[3] + dx, cur[4] + dy>>
        new_g == cur[2] + move_cost(cur[5], dir_idx)
    IN  /\ InBounds(npos)
        /\ npos \notin closed_set
        /\ (npos = end_g \/ ~is_blocked(npos))
        /\ CornersFree(cur[3], cur[4], dx, dy)
        /\ ~(npos \in DOMAIN g_scores /\ g_scores[npos] <= new_g)

\* The loop condition without the cap on popped nodes.
LoopIgnoresCap == open_set # {}

\* while open_set and iterations < max_iterations
LoopContinues == open_set # {} /\ iterations < astar_in.cap

\* The first statements of the search, up to its loop.
AstarInit ==
    /\ astar_in \in AstarInputs
    /\ open_set = { <<Weighted(heuristic(start_g[1], start_g[2], end_g[1], end_g[2])),
                      0, start_g[1], start_g[2], -1>> }
    /\ closed_set = {}
    /\ g_scores = (start_g :> 0)
    /\ came_from = << >>
    /\ iterations = 0
    /\ astar_out = [pc |-> "search"]

\* The entry a pass of the loop pops; none when the loop is over.
Popped == IF astar_out.pc = "search" /\ LoopContinues THEN {HeapTop} ELSE {}

\* One pass of the loop that pops the goal: go on to _reconstruct_path.
AstarPopGoal ==
    \E cur \in Popped :
        /\ astar_out.pc = "search"
        /\ LoopContinues
        /\ <<cur[3], cur[4]>> = end_g
        /\ iterations' = iterations + 1
        /\ open_set' = open_set \ {cur}
        /\ astar_out' = [pc |-> "reconstruct", pos |-> end_g, raw_path |-> << >>]
        /\ UNCHANGED <<astar_in, closed_set, g_scores, came_from, nonAstarVars>>

\* One pass of the loop that pops an already closed cell.
AstarSkipClosed ==
    \E cur \in Popped :
        /\ astar_out.pc = "search"
        /\ LoopContinues
        /\ <<cur[3], cur[4]>> # end_g
        /\ <<cur[3], cur[4]>> \in closed_set
        /\ iterations' = iterations + 1
        /\ open_set' = open_set \ {cur}
        /\ UNCHANGED <<astar_in, closed_set, g_scores, came_from, astar_out, nonAstarVars>>

\* The heap entry pushed for the neighbour of cur in direction dir_idx.
Pushed(cur, dir_idx) ==
    LET nx == cur[3] + DIRECTIONS[dir_idx + 1][1]
        ny == cur[4] + DIRECTIONS[dir_idx + 1][2]
        new_g == cur[2] + move_cost(cur[5], dir_idx)
    IN  <<new_g + Weighted(heuristic(nx, ny, end_g[1], end_g[2])), new_g, nx, ny, dir_idx>>

\* One pass of the loop that closes the popped cell and expands its 8 neighbours.
AstarExpand ==
    \E cur \in Popped :
        \E pushed \in { { Pushed(cur, d) : d \in { dd \in 0..7 : NeighborAccepted(cur, dd) } } } :
            LET pos == <<cur[3], cur[4]>>
                reached == { <<e[3], e[4]>> : e \in pushed }
                entry(c) == CHOOSE e \in pushed : <<e[3], e[4]>> = c
            IN  /\ astar_out.pc = "search"
                /\ LoopContinues
                /\ pos # end_g
                /\ pos \notin closed_set
                /\ iterations' = iterations + 1
                /\ closed_set' = closed_set \cup {pos}
                /\ g_scores' = [c \in (DOMAIN g_scores) \cup reached |->
                                   IF c \in reached THEN entry(c)[2] ELSE g_scores[c]]
                /\ came_from' = [c \in (DOMAIN came_from) \cup reached |->
                                   IF c \in reached THEN pos ELSE came_from[c]]
                /\ open_set' = (open_set \ {cur}) \cup pushed
                /\ UNCHANGED <<astar_in, astar_out, nonAstarVars>>

\* The loop ends without the goal: return [].
AstarReturnEmpty ==
    /\ astar_out.pc = "search"
    /\ ~LoopContinues
    /\ astar_out' = [pc |-> "done", raw_path |-> << >>, path |-> << >>]
    /\ UNCHANGED <<astar_in, open_set, closed_set, g_scores, came_from, iterations, nonAstarVars>>

\* The point-dropping loop of _reconstruct_path: keep a cell where the unit
\* direction changes.
RECURSIVE Simplify(_, _, _)
Simplify(raw_path, i, simplified) ==
    IF i > Len(raw_path) - 1 THEN Append(simplified, raw_path[Len(raw_path)])
    ELSE LET prev == simplified[Len(simplified)]
             curr == raw_path[i]
             next_pt == raw_path[i + 1]
             turn == \/ Sign(curr[1] - prev[1]) # Sign(next_pt[1] - curr[1])
                     \/ Sign(curr[2] - prev[2]) # Sign(next_pt[2] - curr[2])
         IN  Simplify(raw_path, i + 1, IF turn THEN Append(simplified, curr) ELSE simplified)

Reverse(q) == [i \in 1..Len(q) |-> q[Len(q) + 1 - i]]

\* What _reconstruct_path returns for the raw path, in world coordinates.
WorldPath(raw_path) ==
    LET cells == IF Len(raw_path) < 3 THEN raw_path
                 ELSE Simplify(raw_path, 2, <<raw_path[1]>>)
    IN  [i \in 1..Len(cells) |-> <<cells[i][1] * GridResolution, cells[i][2] * GridResolution>>]

\* One pass of `while pos != start` in _reconstruct_path.
ReconstructStep ==
    /\ astar_out.pc = "reconstruct"
    /\ astar_out.pos # start_g
    /\ astar_out' = [astar_out EXCEPT !.raw_path = Append(@, astar_out.pos),
                                      !.pos = came_from[astar_out.pos]]
    /\ UNCHANGED <<astar_in, open_set, closed_set, g_scores, came_from, iterations, nonAstarVars>>

\* The rest of _reconstruct_path, and the return of the search.
ReconstructReturn ==
    /\ astar_out.pc = "reconstruct"
    /\ astar_out.pos = start_g
    /\ \E raw_path \in {Reverse(Append(astar_out.raw_path, start_g))} :
           astar_out' = [pc |-> "done", raw_path |-> raw_path, path |-> WorldPath(raw_path)]
    /\ UNCHANGED <<astar_in, open_set, closed_set, g_scores, came_from, iterations, nonAstarVars>>

AstarNext ==
    \/ AstarPopGoal
    \/ AstarSkipClosed
    \/ AstarExpand
    \/ AstarReturnEmpty
    \/ ReconstructStep
    \/ ReconstructReturn

\* A search runs to its return: the code is a sequential loop.
InitAstar == AstarInit /\ StoreInit /\ OptIdle /\ RouteIdle /\ BoardIdle /\ AutoIdle

SpecAstar == InitAstar /\ [][AstarNext]_vars /\ WF_vars(AstarNext)

NoRepeat(q) == \A i, j \in 1..Len(q) : i # j => q[i] # q[j]

\* C8: both grid searches terminate: with a path when the goal is popped, else with
\* the empty path when the open list is empty or the cap on popped nodes is reached
\* (never more nodes than the cap are popped); the reconstruction follows the parent
\* of each cell from the goal to the start and visits no cell twice.
C8_SearchTerminates ==
    /\ <>(astar_out.pc = "done")
    /\ [](iterations <= astar_in.cap)
    /\ [](astar_out.pc = "reconstruct" =>
            /\ NoRepeat(Append(astar_out.raw_path, astar_out.pos))
            /\ (astar_out.pos # start_g => astar_out.pos \in DOMAIN came_from))
    /\ [](astar_out.pc = "done" =>
            IF astar_out.path = << >>
            THEN open_set = {} \/ iterations = astar_in.cap
            ELSE LET raw_path == astar_out.raw_path
                 IN  /\ raw_path[1] = start_g
                     /\ raw_path[Len(raw_path)] = end_g
                     /\ NoRepeat(raw_path)
                     /\ \A i \in 1..(Len(raw_path) - 1) :
                            came_from[raw_path[i + 1]] = raw_path[i])

\* A search stopped by the cap with entries still in the open list.
C8_StoppedByCap ==
    /\ astar_out.pc = "done"
    /\ astar_out.path = << >>
    /\ iterations = astar_in.cap
    /\ open_set # {}

\* C10: in every path a grid search returns, each diagonal step has both of its
\* side cells unblocked under the test that is used for stepping into a cell.
C10_NoCornerCutting ==
    astar_out.pc = "done" =>
        \A i \in 1..(Len(astar_out.raw_path) - 1) :
            LET a == astar_out.raw_path[i]
                b == astar_out.raw_path[i + 1]
            IN  (b[1] # a[1] /\ b[2] # a[2]) =>
                    ~is_blocked(<<b[1], a[2]>>) /\ ~is_blocked(<<a[1], b[2]>>)

\* A returned path with a diagonal step that had to go around blocked cells.
C10_DiagonalDetour ==
    /\ astar_out.pc = "done"
    /\ Len(astar_out.raw_path) - 1 >
           Max2(Abs(end_g[1] - start_g[1]), Abs(end_g[2] - start_g[2]))
    /\ \E i \in 1..(Len(astar_out.raw_path) - 1) :
           /\ astar_out.raw_path[i + 1][1] # astar_out.raw_path[i][1]
           /\ astar_out.raw_path[i + 1][2] # astar_out.raw_path[i][2]

\* C6: every non-empty path returned by route(s, e) has s as its first point and e
\* as its last point to within 1 micrometre (a fifth of the unit: the same point).
\* The grid backend returns the path of astar_search unchanged.
C6_EndpointsPreserved ==
    (astar_out.pc = "done" /\ astar_out.path # << >>) =>
        /\ astar_out.path[1] = astar_in.start
        /\ astar_out.path[Len(astar_out.path)] = astar_in.end

\* A returned path whose first point is the grid cell's centre, not the start asked for.
C6_SnappedStart ==
    /\ astar_out.pc = "done"
    /\ astar_out.path # << >>
    /\ astar_out.path[1] # astar_in.start

\* ---------------------------------------------------------------- hulls
\* hulls.py and hull_map.py.  A point is a pair <<x, y>>; a LineChain is the
\* sequence of its points.  A unit vector is kept in thousandths.

\* clearance of the TraceRouter that main.py builds, 0.2 mm.
RouterClearance == 40

\* cell_size of the HullMap's spatial index, 2.0 mm.
HullCellSize == 400

\* A coordinate that is not a finite float (inf or nan).
NonFinite == 1000000

IsFinite(p) == p[1] # NonFinite /\ p[2] # NonFinite

\* Point.normalized(), in thousandths; the zero vector stays zero.
normalized(v) ==
    LET Length(n) == IF n <= 200000 THEN ISqrt(10000 * n) ELSE 10 * ISqrt(100 * n)
        Scaled(l) == <<RoundHalfEven(v[1] * 100000, l), RoundHalfEven(v[2] * 100000, l)>>
    IN  IF v = <<0, 0>> THEN <<0, 0>> ELSE Scaled(Length(v[1] * v[1] + v[2] * v[2]))

\* point + unit * dist for a unit vector in thousandths.
Offset(point, unit, dist) ==
    <<point[1] + RoundHalfEven(unit[1] * dist, 1000),
      point[2] + RoundHalfEven(unit[2] * dist, 1000)>>

\* cos(2 pi i / 16) in thousandths; sin(2 pi i / 16) is Cos16(i - 4).
Cos16(i) ==
    LET t == <<1000, 924, 707, 383, 0, -383, -707, -924,
               -1000, -924, -707, -383, 0, 383, 707, 924>>
    IN  t[(i % 16) + 1]

octagonal_hull(center, half_width, half_height, clr) ==
    LET hw == half_width + clr
        hh == half_height + clr
        chamfer == RoundHalfEven(Min2(hw, hh) * 3, 10)
        cx == center[1]
        cy == center[2]
    IN  << <<cx - hw + chamfer, cy - hh>>, <<cx + hw - chamfer, cy - hh>>,
           <<cx + hw, cy - hh + chamfer>>, <<cx + hw, cy + hh - chamfer>>,
           <<cx + hw - chamfer, cy + hh>>, <<cx - hw + chamfer, cy + hh>>,
           <<cx - hw, cy + hh - chamfer>>, <<cx - hw, cy - hh + chamfer>> >>

circular_hull(center, radius, clr) ==
    [i \in 1..16 |-> <<center[1] + RoundHalfEven((radius + clr) * Cos16(i - 1), 1000),
                       center[2] + RoundHalfEven((radius + clr) * Cos16(i - 5), 1000)>>]

\* The stadium around a segment: two sides and two caps of four steps each, built
\* clockwise, the closing duplicate dropped, then reversed.
segment_hull(start, end, width, clr) ==
    LET half_width == width \div 2 + clr
        Stadium(dir_norm) ==
            LET perp == <<-dir_norm[2], dir_norm[1]>>
                \* dir_norm * (half_width * cos a) + perp * (half_width * sin a), a = 2 pi k / 16
                cap(p, k) ==
                    <<p[1] + RoundHalfEven(
                                 half_width * (dir_norm[1] * Cos16(k) + perp[1] * Cos16(k - 4)),
                                 1000000),
                      p[2] + RoundHalfEven(
                                 half_width * (dir_norm[2] * Cos16(k) + perp[2] * Cos16(k - 4)),
                                 1000000)>>
                cw == << Offset(start, perp, half_width), Offset(end, perp, half_width),
                         cap(end, 2), cap(end, 0), cap(end, 14), cap(end, 12),
                         Offset(start, perp, -half_width),
                         cap(start, 10), cap(start, 8), cap(start, 6) >>
            IN  [i \in 1..10 |-> cw[11 - i]]
    IN  IF start = end THEN circular_hull(start, width \div 2, clr)
        ELSE Stadium(normalized(<<end[1] - start[1], end[2] - start[2]>>))

\* IndexedHull: the chain with its bounding box.  net_id is the hull's own net
\* (0 for none); uid stands for the identity of the Python object.
IndexedHull(uid, points, net_id, source_type, source) ==
    LET finite == \A i \in 1..Len(points) : IsFinite(points[i])
        xs == {points[i][1] : i \in 1..Len(points)}
        ys == {points[i][2] : i \in 1..Len(points)}
    IN  [uid |-> uid, points |-> points, net_id |-> net_id,
         min_x |-> IF finite THEN CHOOSE x \in xs : \A o \in xs : x <= o ELSE NonFinite,
         max_x |-> IF finite THEN CHOOSE x \in xs : \A o \in xs : x >= o ELSE NonFinite,
         min_y |-> IF finite THEN CHOOSE y \in ys : \A o \in ys : y <= o ELSE NonFinite,
         max_y |-> IF finite THEN CHOOSE y \in ys : \A o \in ys : y >= o ELSE NonFinite,
         source_type |-> source_type, source |-> source]

\* _cell_coords for one coordinate: floor(x / cell_size).
cell_coords(x) == x \div HullCellSize

\* _add_to_grid; the caller has checked that the bounding box is finite.
add_to_grid(g, hull) ==
    LET cells == { <<cx, cy>> : cx \in cell_coords(hull.min_x)..cell_coords(hull.max_x),
                                cy \in cell_coords(hull.min_y)..cell_coords(hull.max_y) }
    IN  [c \in (DOMAIN g) \cup cells |->
            IF c \in cells THEN Append(IF c \in DOMAIN g THEN g[c] ELSE << >>, hull)
            ELSE g[c]]

\* The loops of query_segment and query_point: the cells of the box column by
\* column, and in each the hulls not seen before.
RECURSIVE QueryFrom(_, _, _, _, _)
QueryFrom(g, cx, cy, box, seen) ==
    IF cx > cell_coords(box.max_x) THEN seen
    ELSE IF cy > cell_coords(box.max_y)
         THEN QueryFrom(g, cx + 1, cell_coords(box.min_y), box, seen)
    ELSE LET lst == IF <<cx, cy>> \in DOMAIN g THEN g[<<cx, cy>>] ELSE << >>
             new == SelectSeq(lst, LAMBDA h : \A k \in 1..Len(seen) : seen[k].uid # h.uid)
         IN  QueryFrom(g, cx, cy + 1, box, seen \o new)

\* query_segment: the box of the segment widened by trace_width / 2; same-net
\* hulls are skipped when a net is given, then the bounding boxes must overlap.
query_segment(g, start, end, trace_width, net_id) ==
    LET half_width == trace_width \div 2
        box == [min_x |-> Min2(start[1], end[1]) - half_width,
                max_x |-> Max2(start[1], end[1]) + half_width,
                min_y |-> Min2(start[2], end[2]) - half_width,
                max_y |-> Max2(start[2], end[2]) + half_width]
    IN  SelectSeq(QueryFrom(g, cell_coords(box.min_x), cell_coords(box.min_y), box, << >>),
                  LAMBDA h : /\ ~(net_id # NoNet /\ h.net_id = net_id)
                             /\ h.min_x <= box.max_x /\ h.max_x >= box.min_x
                             /\ h.min_y <= box.max_y /\ h.max_y >= box.min_y)

\* The intersection of the segments p1 p2 and p3 p4: << >> for None, else <<point>>.
segment_segment_intersection(p1, p2, p3, p4) ==
    LET d1 == <<p2[1] - p1[1], p2[2] - p1[2]>>
        d2 == <<p4[1] - p3[1], p4[2] - p3[2]>>
        d3 == <<p3[1] - p1[1], p3[2] - p1[2]>>
        cross == d1[1] * d2[2] - d1[2] * d2[1]
        s == Sign(cross)
        t == s * (d3[1] * d2[2] - d3[2] * d2[1])
        u == s * (d3[1] * d1[2] - d3[2] * d1[1])
    IN  IF cross = 0 THEN << >>
        ELSE IF 0 <= t /\ t <= s * cross /\ 0 <= u /\ u <= s * cross
             THEN << <<p1[1] + RoundHalfEven(d1[1] * t, s * cross),
                       p1[2] + RoundHalfEven(d1[2] * t, s * cross)>> >>
        ELSE << >>

\* LineChain.intersects_segment, of which every caller takes the first entry:
\* the intersection closest to p1 (the earliest edge on a tie), << >> if none.
intersects_segment(points, p1, p2) ==
    LET n == Len(points)
        \* hits[i] is the intersection with edge i - 1, << >> or <<point>>
        Closest(hits) ==
            LET idx == {i \in 1..n : hits[i] # << >>}
                d(i) == DistSq(p1, hits[i][1])
                Entry(best) == << [hull |-> << >>, pt |-> hits[best][1],
                                   edge_idx |-> best - 1, dist_sq |-> d(best)] >>
            IN  IF idx = {} THEN << >>
                ELSE Entry(CHOOSE i \in idx :
                               \A j \in idx : d(i) < d(j) \/ (d(i) = d(j) /\ i <= j))
    IN  Closest([i \in 1..n |->
                    segment_segment_intersection(p1, p2, points[i], points[(i % n) + 1])])

\* LineChain.point_inside: ray casting.
point_inside(points, p) ==
    LET n == Len(points)
        crosses(i) ==
            LET pi == points[i]
                pj == points[IF i = 1 THEN n ELSE i - 1]
                den == pj[2] - pi[2]
                num == (pj[1] - pi[1]) * (p[2] - pi[2])
            IN  /\ (pi[2] > p[2]) # (pj[2] > p[2])
                /\ IF den > 0 THEN (p[1] - pi[1]) * den < num
                   ELSE (p[1] - pi[1]) * den > num
    IN  n >= 3 /\ Cardinality({i \in 1..n : crosses(i)}) % 2 = 1

\* get_blocking_hulls before its sort: for each queried hull that the segment
\* intersects, the closest intersection.
get_blocking_hulls(g, start, end, trace_width, net_id) ==
    LET Hits(q) == [k \in 1..Len(q) |->
                       [hull |-> q[k], hit |-> intersects_segment(q[k].points, start, end)]]
        Blocking(hits) ==
            LET sel == SelectSeq(hits, LAMBDA e : e.hit # << >>)
            IN  [k \in 1..Len(sel) |-> [sel[k].hit[1] EXCEPT !.hull = sel[k].hull]]
    IN  Blocking(Hits(query_segment(g, start, end, trace_width, net_id)))

\* point_inside_any_hull, as the truth value its callers use.  query_point has
\* the loop and the tests of query_segment over the box of the point widened by
\* the radius, 0.1 mm: the box of a segment from the point to itself, 0.2 mm wide.
point_inside_any_hull(g, point, net_id) ==
    LET InsideOne(q) == \E k \in 1..Len(q) : point_inside(q[k].points, point)
    IN  InsideOne(query_segment(g, point, point, 40, net_id))

\* The identity of a new hull object: one no hull of the map has.
NewUid(hulls) ==
    CHOOSE u \in 1..(Len(hulls) + 1) :
        /\ \A k \in 1..Len(hulls) : hulls[k].uid # u
        /\ \A v \in 1..(u - 1) : \E k \in 1..Len(hulls) : hulls[k].uid = v

\* add_pending_trace from segment i on.  A segment with a coordinate that is not
\* finite gets a hull of nan points, which is appended to both lists before
\* _add_to_grid raises on its bounding box (hm.raised).
RECURSIVE add_pending_trace(_, _, _)
add_pending_trace(hm, trace, i) ==
    LET start == trace.segments[i]
        end == trace.segments[i + 1]
        finite == IsFinite(start) /\ IsFinite(end)
        Added(indexed) ==
            [hulls |-> Append(hm.hulls, indexed),
             pending_hulls |-> Append(hm.pending_hulls, indexed),
             grid |-> IF finite THEN add_to_grid(hm.grid, indexed) ELSE hm.grid,
             raised |-> ~finite]
    IN  IF hm.raised \/ i > Len(trace.segments) - 1 THEN hm
        ELSE add_pending_trace(
                 Added(IndexedHull(NewUid(hm.hulls),
                                   IF finite
                                   THEN segment_hull(start, end, trace.width, RouterClearance)
                                   ELSE [k \in 1..10 |-> <<NonFinite, NonFinite>>],
                                   IF trace.net_id = NoNet THEN 0 ELSE trace.net_id,
                                   "pending", <<trace.id, i - 1>>)),
                 trace, i + 1)

RECURSIVE RebuildGrid(_, _, _)
RebuildGrid(hulls, i, g) ==
    IF i > Len(hulls) THEN g ELSE RebuildGrid(hulls, i + 1, add_to_grid(g, hulls[i]))

clear_pending_hulls(hm) ==
    IF hm.pending_hulls = << >> THEN hm
    ELSE LET kept == SelectSeq(hm.hulls,
                         LAMBDA h : \A k \in 1..Len(hm.pending_hulls) :
                                        hm.pending_hulls[k].uid # h.uid)
         IN  [hulls |-> kept, pending_hulls |-> << >>, grid |-> RebuildGrid(kept, 1, << >>),
              raised |-> hm.raised]

\* ---------------------------------------------------------- path optimizer
\* PathOptimizer.  ctx carries what the methods read from self and their
\* unchanging argument: whether hull_map is None (ctx.none) and, if it is not,
\* the grid g of the hull map, trace_width and net_id.  ctx.unit is the length
\* of the model's unit (0.005 mm) in the coordinates of the path: 1 wherever a
\* hull map is used, 10 (coordinates in 0.0005 mm) for the optimizer on its own,
\* whose thresholds go down to 0.001 mm.

\* PathOptimizer(hull_map=None), with coordinates in 0.0005 mm.
OptCtx == [none |-> TRUE, unit |-> 10]

\* The bounded inputs: paths of up to MaxPathLen points over these points, the
\* last of them 0.0005 mm away from another one.
MaxPathLen == 3

OptPoints ==
    { <<0, 0>>, <<200, 10>>, <<400, 20>>, <<400, 0>>, <<200, 200>>, <<300, 50>>, <<30, 40>>,
      <<400, 1>> }

OptPaths == UNION { [1..n -> OptPoints] : n \in 1..MaxPathLen }

\* The loop of _remove_duplicates: epsilon is 0.05 mm = 10 units; the last point
\* is kept if it is more than 0.001 mm = 1/5 unit away from the last kept point.
RECURSIVE RemoveDuplicatesFrom(_, _, _, _)
RemoveDuplicatesFrom(ctx, points, i, result) ==
    IF i > Len(points) THEN result
    ELSE LET d == DistSq(points[i], result[Len(result)])
             keep == IF i = Len(points) THEN 25 * d > ctx.unit * ctx.unit
                     ELSE d > (10 * ctx.unit) * (10 * ctx.unit)
         IN  RemoveDuplicatesFrom(ctx, points, i + 1,
                                  IF keep THEN Append(result, points[i]) ELSE result)

remove_duplicates(ctx, points) ==
    IF Len(points) < 2 THEN points
    ELSE LET result == RemoveDuplicatesFrom(ctx, points, 2, <<points[1]>>)
         IN  IF Len(result) = 1 THEN Append(result, points[Len(points)]) ELSE result

\* tolerance of _is_45_degree_angle, 0.01 mm.
Tolerance45 == 2

is_45_degree_angle(ctx, dx, dy) ==
    LET adx == Abs(dx)
        ady == Abs(dy)
        tolerance == Tolerance45 * ctx.unit
    IN  \/ adx < tolerance
        \/ ady < tolerance
        \/ (ady > tolerance /\ 100 * Abs(adx - ady) < ady)

path_clear(ctx, start, end) ==
    ctx.none \/ get_blocking_hulls(ctx.g, start, end, ctx.trace_width, ctx.net_id) = << >>

\* The first candidate (diagonal first) or the second (straight first) whose two
\* segments are clear; the first one when neither is, or without a hull map.
compute_45_midpoint(ctx, start, end) ==
    LET dx == end[1] - start[1]
        dy == end[2] - start[2]
        adx == Abs(dx)
        ady == Abs(dy)
        sx == IF dx > 0 THEN 1 ELSE -1
        sy == IF dy > 0 THEN 1 ELSE -1
        mid1 == <<start[1] + Min2(adx, ady) * sx, start[2] + Min2(adx, ady) * sy>>
        mid2 == IF adx >= ady THEN <<start[1] + (adx - ady) * sx, start[2]>>
                ELSE <<start[1], start[2] + (ady - adx) * sy>>
    IN  IF path_clear(ctx, start, mid1) /\ path_clear(ctx, mid1, end) THEN mid1
        ELSE IF path_clear(ctx, start, mid2) /\ path_clear(ctx, mid2, end) THEN mid2
        ELSE mid1

RECURSIVE Enforce45From(_, _, _, _)
Enforce45From(ctx, points, i, result) ==
    IF i > Len(points) THEN result
    ELSE LET prev == result[Len(result)]
             curr == points[i]
         IN  Enforce45From(ctx, points, i + 1,
                 IF is_45_degree_angle(ctx, curr[1] - prev[1], curr[2] - prev[2])
                 THEN Append(result, curr)
                 ELSE Append(Append(result, compute_45_midpoint(ctx, prev, curr)), curr))

enforce_45_degrees(ctx, points) ==
    IF Len(points) < 2 THEN points ELSE Enforce45From(ctx, points, 2, <<points[1]>>)

\* abs(diff) > angle_tolerance for the directions u then v, the tolerance being
\* 5 degrees (tan 5 degrees = 0.08749); atan2(0, 0) is 0, the direction of (1, 0).
TurnsMoreThanTolerance(u, v) ==
    LET a == IF u = <<0, 0>> THEN <<1, 0>> ELSE u
        b == IF v = <<0, 0>> THEN <<1, 0>> ELSE v
        cross == a[1] * b[2] - a[2] * b[1]
        dot == a[1] * b[1] + a[2] * b[2]
    IN  ~(dot > 0 /\ 1000 * Abs(cross) <= 87 * dot + (49 * dot) \div 100)

RECURSIVE MergeColinearFrom(_, _, _)
MergeColinearFrom(points, i, result) ==
    IF i >= Len(points) THEN Append(result, points[Len(points)])
    ELSE LET prev == result[Len(result)]
             curr == points[i]
             next_pt == points[i + 1]
             keep == TurnsMoreThanTolerance(<<curr[1] - prev[1], curr[2] - prev[2]>>,
                                            <<next_pt[1] - curr[1], next_pt[2] - curr[2]>>)
         IN  MergeColinearFrom(points, i + 1, IF keep THEN Append(result, curr) ELSE result)

merge_colinear(points) ==
    IF Len(points) < 3 THEN points ELSE MergeColinearFrom(points, 2, <<points[1]>>)

\* ---------------------------------------------------------------------------
\* PathOptimizer().optimize(path): the optimizer built without a hull map, as in
\* its own tests.  Passes 1, 2, 3 and 9 run, passes 4 to 8 are skipped.

\* optimize is entered with a path.
OptInit ==
    /\ opt_in \in OptPaths
    /\ opt_points = opt_in
    /\ opt_pc = "start"

\* if len(path) < 2: return path
OptReturnShort ==
    /\ opt_pc = "start"
    /\ Len(opt_in) < 2
    /\ opt_pc' = "done"
    /\ UNCHANGED <<opt_in, opt_points, nonOptVars>>

\* Pass 1.
OptRemoveDuplicates ==
    /\ opt_pc = "start"
    /\ Len(opt_in) >= 2
    /\ opt_points' = remove_duplicates(OptCtx, opt_points)
    /\ opt_pc' = "pass2"
    /\ UNCHANGED <<opt_in, nonOptVars>>

\* Pass 2.
OptEnforce45 ==
    /\ opt_pc = "pass2"
    /\ opt_points' = enforce_45_degrees(OptCtx, opt_points)
    /\ opt_pc' = "pass3"
    /\ UNCHANGED <<opt_in, nonOptVars>>

\* Pass 3; the hull map is None, so passes 4 to 8 do not run.
OptMergeColinear ==
    /\ opt_pc = "pass3"
    /\ opt_points' = merge_colinear(opt_points)
    /\ opt_pc' = "pass9"
    /\ UNCHANGED <<opt_in, nonOptVars>>

\* Pass 9 and the return.
OptFinalMerge ==
    /\ opt_pc = "pass9"
    /\ opt_points' = merge_colinear(opt_points)
    /\ opt_pc' = "done"
    /\ UNCHANGED <<opt_in, nonOptVars>>

OptNext ==
    \/ OptReturnShort
    \/ OptRemoveDuplicates
    \/ OptEnforce45
    \/ OptMergeColinear
    \/ OptFinalMerge

InitOpt == OptInit /\ StoreInit /\ AstarIdle /\ RouteIdle /\ BoardIdle /\ AutoIdle

SpecOpt == InitOpt /\ [][OptNext]_vars

\* C7: for every input path, each pair of consecutive points of the path returned
\* by optimize differs by (dx, dy) with |dx| < eps or |dy| < eps or
\* ||dx| - |dy|| < eps, eps being the optimizer's 0.01 mm.
C7_All45Degrees ==
    opt_pc = "done" =>
        \A i \in 1..(Len(opt_points) - 1) :
            LET dx == opt_points[i + 1][1] - opt_points[i][1]
                dy == opt_points[i + 1][2] - opt_points[i][2]
            IN  \/ Abs(dx) < Tolerance45 * OptCtx.unit
                \/ Abs(dy) < Tolerance45 * OptCtx.unit
                \/ Abs(Abs(dx) - Abs(dy)) < Tolerance45 * OptCtx.unit

\* A returned path with a segment that the optimizer's own test rejects, made by
\* merging two segments that each pass it.
C7_MergedOffAngle ==
    /\ opt_pc = "done"
    /\ Len(opt_in) = 3
    /\ Len(opt_points) = 2
    /\ is_45_degree_angle(OptCtx, opt_in[2][1] - opt_in[1][1], opt_in[2][2] - opt_in[1][2])
    /\ is_45_degree_angle(OptCtx, opt_in[3][1] - opt_in[2][1], opt_in[3][2] - opt_in[2][2])
    /\ ~is_45_degree_angle(OptCtx, opt_points[2][1] - opt_points[1][1],
                           opt_points[2][2] - opt_points[1][2])

\* ------------------------------------------------------------ walkaround
\* walkaround.py.  ctx carries what the methods read from self and their
\* unchanging arguments: the grid g of the hull map, trace_width, net_id, the
\* goal, and reference_path (<< >> for None) with reference_spacing (0 for None).

\* corner_offset of the WalkaroundRouter that the TraceRouter builds, 0.1 mm.
CornerOffset == 20

\* max_iterations of the WalkaroundRouter that the TraceRouter builds.
RouterMaxIterations == 1000

\* The small max_iterations also given to a WalkaroundRouter.
WalkIterationCap == 3

max_stall == 20

\* The first of get_blocking_hulls' sorted list: << >> for None.
find_first_blocking_hull(ctx, start, end) ==
    LET First(b) ==
            IF Len(b) = 0 THEN << >>
            ELSE << b[CHOOSE k \in 1..Len(b) :
                         \A j \in 1..Len(b) :
                             \/ b[k].dist_sq < b[j].dist_sq
                             \/ (b[k].dist_sq = b[j].dist_sq /\ k <= j)] >>
    IN  First(get_blocking_hulls(ctx.g, start, end, ctx.trace_width, ctx.net_id))

can_reach(ctx, start, end) == find_first_blocking_hull(ctx, start, end) = << >>

\* Edges and vertices are counted from 0 as in the code.
offset_from_hull(ctx, point, points, edge_idx) ==
    LET e1 == points[edge_idx + 1]
        e2 == points[((edge_idx + 1) % Len(points)) + 1]
        Outward(edge_dir) ==
            Offset(point, <<edge_dir[2], -edge_dir[1]>>, ctx.trace_width \div 2 + CornerOffset)
    IN  Outward(normalized(<<e2[1] - e1[1], e2[2] - e1[2]>>))

offset_vertex(ctx, points, vertex_idx) ==
    LET n == Len(points)
        vertex == points[vertex_idx + 1]
        prev_pt == points[((vertex_idx - 1) % n) + 1]
        next_pt == points[((vertex_idx + 1) % n) + 1]
        \* v1, v2: the directions of the edges before and after the vertex; their
        \* outward normals are n1 = (v1.y, -v1.x) and n2 = (v2.y, -v2.x)
        Outward(v1, v2) ==
            LET Pick(sum) == IF sum = <<0, 0>> THEN <<v1[2], -v1[1]>> ELSE sum
            IN  Offset(vertex, Pick(normalized(<<v1[2] + v2[2], -v1[1] - v2[1]>>)),
                       ctx.trace_width \div 2 + CornerOffset)
    IN  Outward(normalized(<<vertex[1] - prev_pt[1], vertex[2] - prev_pt[2]>>),
                normalized(<<next_pt[1] - vertex[1], next_pt[2] - vertex[2]>>))

\* The vertex loop of _walk_hull: at most n + 2 rounds, ended by a vertex seen
\* before, and left as soon as an added vertex can reach the goal.
RECURSIVE WalkVertices(_, _, _, _, _, _, _)
WalkVertices(ctx, points, step, current_vertex, visited_vertices, path, round) ==
    LET At(offset_vertex_pt) ==
            LET Go(inside) ==
                    IF ~inside /\ can_reach(ctx, offset_vertex_pt, ctx.goal)
                    THEN Append(path, offset_vertex_pt)
                    ELSE WalkVertices(ctx, points, step,
                                      (current_vertex + step) % Len(points),
                                      visited_vertices \cup {current_vertex},
                                      IF inside THEN path ELSE Append(path, offset_vertex_pt),
                                      round + 1)
            IN  Go(point_inside_any_hull(ctx.g, offset_vertex_pt, ctx.net_id))
    IN  IF round > Len(points) + 2 \/ current_vertex \in visited_vertices THEN path
        ELSE At(offset_vertex(ctx, points, current_vertex))

walk_hull(ctx, points, entry_point, entry_edge, clockwise) ==
    LET From(offset_pt) ==
            WalkVertices(ctx, points, IF clockwise THEN -1 ELSE 1,
                         IF clockwise THEN entry_edge ELSE (entry_edge + 1) % Len(points),
                         {},
                         IF point_inside_any_hull(ctx.g, offset_pt, ctx.net_id)
                         THEN << >> ELSE <<offset_pt>>,
                         1)
    IN  From(offset_from_hull(ctx, entry_point, points, entry_edge))

truncate_to_best_point(ctx, path) ==
    LET Cut(reachable_indices) ==
            IF reachable_indices = {} THEN path
            ELSE SubSeq(path, 1, CHOOSE i \in reachable_indices :
                                     \A j \in reachable_indices : i <= j)
    IN  Cut({i \in 1..Len(path) : can_reach(ctx, path[i], ctx.goal)})

\* Lengths are in tenths of the unit.
RECURSIVE path_length(_)
path_length(path) ==
    IF Len(path) < 2 THEN 0
    ELSE ISqrt(100 * DistSq(path[1], path[2])) + path_length(Tail(path))

\* point_to_segment_distance of hulls.py, in tenths of the unit.
point_to_segment_distance(p, a, b) ==
    LET ab == <<b[1] - a[1], b[2] - a[2]>>
        len_sq == ab[1] * ab[1] + ab[2] * ab[2]
        t == (p[1] - a[1]) * ab[1] + (p[2] - a[2]) * ab[2]
        cross == Abs((p[1] - a[1]) * ab[2] - (p[2] - a[2]) * ab[1])
        Length(n) == IF n <= 200000 THEN ISqrt(10000 * n) ELSE 10 * ISqrt(100 * n)
    IN  IF len_sq = 0 \/ t <= 0 THEN ISqrt(100 * DistSq(p, a))
        ELSE IF t >= len_sq THEN ISqrt(100 * DistSq(p, b))
        ELSE (1000 * cross) \div Length(len_sq)

\* The smallest of a non-empty set of numbers.
SetMin(S) == CHOOSE x \in S : \A y \in S : x <= y

distance_to_reference(ctx, point) ==
    IF Len(ctx.reference_path) < 2 THEN 0
    ELSE SetMin({ point_to_segment_distance(point, ctx.reference_path[i],
                                            ctx.reference_path[i + 1])
                  : i \in 1..(Len(ctx.reference_path) - 1) })

\* The average squared deviation from the spacing, in squares of a tenth of the unit.
RECURSIVE SumSquaredDeviation(_, _)
SumSquaredDeviation(ctx, path) ==
    IF path = << >> THEN 0
    ELSE LET Squared(deviation) == deviation * deviation
         IN  Squared(Abs(distance_to_reference(ctx, Head(path)) - 10 * ctx.reference_spacing))
                 + SumSquaredDeviation(ctx, Tail(path))

reference_following_score(ctx, path) ==
    IF ctx.reference_path = << >> \/ ctx.reference_spacing = 0 \/ path = << >> THEN 0
    ELSE SumSquaredDeviation(ctx, path) \div Len(path)

\* << >> stands for None as well as for an empty path: the caller treats both
\* as a failure.  ref_weight is 0.5 mm per mm^2 of score, which is 1/4000 of a
\* tenth of the unit per square of a tenth: the totals are in 4000ths of a tenth.
choose_best_path(ctx, cw_path, ccw_path) ==
    LET total(p) == 4000 * (path_length(p) + ISqrt(100 * DistSq(p[Len(p)], ctx.goal)))
                        + IF ctx.reference_path # << >> /\ ctx.reference_spacing # 0
                          THEN reference_following_score(ctx, p)
                          ELSE 0
        Pick(cw_truncated, ccw_truncated) ==
            IF cw_truncated = << >> THEN ccw_truncated
            ELSE IF ccw_truncated = << >> THEN cw_truncated
            ELSE IF total(cw_truncated) <= total(ccw_truncated) THEN cw_truncated
            ELSE ccw_truncated
    IN  Pick(truncate_to_best_point(ctx, cw_path), truncate_to_best_point(ctx, ccw_path))

\* << >> for None, else <<escape>>.
try_escape(ctx, current, hull, goal) ==
    LET escape_dist == (ctx.trace_width \div 2) * 3
        Pick(escape1, escape2) ==
            IF ~point_inside_any_hull(ctx.g, escape1, hull.net_id) THEN <<escape1>>
            ELSE IF ~point_inside_any_hull(ctx.g, escape2, hull.net_id) THEN <<escape2>>
            ELSE << >>
        Perp(unit) == Pick(Offset(current, <<-unit[2], unit[1]>>, escape_dist),
                           Offset(current, <<unit[2], -unit[1]>>, escape_dist))
    IN  IF DistSq(current, goal) < 2 * 2 THEN << >>
        ELSE Perp(normalized(<<goal[1] - current[1], goal[2] - current[2]>>))

\* _project_onto_reference: the index of the closest segment, counted from 0.
project_onto_reference(ctx, point) ==
    LET ref == ctx.reference_path
        dist(i) == IF DistSq(ref[i], ref[i + 1]) < 4
                   THEN ISqrt(100 * DistSq(point, ref[i]))
                   ELSE point_to_segment_distance(point, ref[i], ref[i + 1])
    IN  IF Len(ref) < 2 THEN 0
        ELSE (CHOOSE i \in 1..(Len(ref) - 1) :
                 \A j \in 1..(Len(ref) - 1) :
                     dist(i) < dist(j) \/ (dist(i) = dist(j) /\ i <= j)) - 1

\* _get_reference_side: 1 or -1.
get_reference_side(ctx, point) ==
    LET Side(p1, p2) ==
            IF (p2[1] - p1[1]) * (point[2] - p1[2]) - (p2[2] - p1[2]) * (point[1] - p1[1]) >= 0
            THEN 1 ELSE -1
        At(closest_idx) == Side(ctx.reference_path[closest_idx + 1],
                                ctx.reference_path[closest_idx + 2])
    IN  IF Len(ctx.reference_path) < 2 THEN 1
        ELSE At(project_onto_reference(ctx, point))

\* _compute_corner_offset for the vertex idx (from 0) of the reference path.
compute_corner_offset(ctx, idx, side) ==
    LET ref == ctx.reference_path
        n == Len(ref)
        curr == ref[idx + 1]
        Perp(dir) == <<-dir[2] * side, dir[1] * side>>
        Along(a, b) == normalized(<<b[1] - a[1], b[2] - a[2]>>)
        Out(perp) == Offset(curr, perp, ctx.reference_spacing)
        Bisect(perp_in, perp_out) ==
            IF <<perp_in[1] + perp_out[1], perp_in[2] + perp_out[2]>> = <<0, 0>>
            THEN perp_in
            ELSE normalized(<<perp_in[1] + perp_out[1], perp_in[2] + perp_out[2]>>)
    IN  IF idx = 0
        THEN IF ref[2] = curr THEN curr ELSE Out(Perp(Along(curr, ref[2])))
        ELSE IF idx = n - 1
        THEN IF ref[idx] = curr THEN curr ELSE Out(Perp(Along(ref[idx], curr)))
        ELSE IF ref[idx] = curr \/ ref[idx + 2] = curr THEN curr
        ELSE Out(Bisect(Perp(Along(ref[idx], curr)), Perp(Along(curr, ref[idx + 2]))))

\* _generate_offset_waypoints.
generate_offset_waypoints(ctx, start) ==
    LET On(start_side) ==
            [i \in 1..Len(ctx.reference_path) |-> compute_corner_offset(ctx, i - 1, start_side)]
    IN  IF ctx.reference_path = << >> \/ ctx.reference_spacing = 0
           \/ Len(ctx.reference_path) < 2
        THEN << >>
        ELSE On(get_reference_side(ctx, start))

\* The condition under which _route_segment gives up on a stalled walk.
StalledNever(stall_count) == FALSE

Stalled(stall_count) == stall_count >= max_stall

\* One round of the loop of _route_segment that found the closest blocking hull b:
\* the locals afterwards, with returned and success for a return.
WalkRound(ctx, w, b) ==
    LET it == [w EXCEPT !.iterations = @ + 1]
        Escaped(escape) ==
            IF escape # << >>
            THEN [it EXCEPT !.path = Append(@, escape[1]), !.current = escape[1]]
            ELSE [it EXCEPT !.returned = TRUE]
        Walked(best_path) ==
            LET current == best_path[Len(best_path)]
                current_dist_sq == DistSq(current, ctx.goal)
                walked == [it EXCEPT !.path = @ \o best_path, !.current = current,
                                     !.visited_hulls = @ \cup {b.hull.uid}]
            IN  IF best_path = << >>
                THEN [it EXCEPT !.returned = TRUE, !.visited_hulls = @ \cup {b.hull.uid}]
                ELSE IF 20 * current_dist_sq < 19 * w.best_dist_sq
                THEN [walked EXCEPT !.best_dist_sq = current_dist_sq, !.stall_count = 0,
                                    !.visited_hulls = {}]
                ELSE IF Stalled(w.stall_count + 1)
                THEN [walked EXCEPT !.stall_count = @ + 1, !.returned = TRUE]
                ELSE [walked EXCEPT !.stall_count = @ + 1, !.visited_hulls = {}]
    IN  IF b.hull.uid \in w.visited_hulls
        THEN Escaped(try_escape(ctx, w.current, b.hull, ctx.goal))
        ELSE Walked(choose_best_path(ctx,
                        walk_hull(ctx, b.hull.points, b.pt, b.edge_idx, TRUE),
                        walk_hull(ctx, b.hull.points, b.pt, b.edge_idx, FALSE)))

\* ------------------------------------------- path optimizer with a hull map
\* Passes 4 to 8 of optimize, which run when the optimizer has a hull map.
\* Lengths are in tenths of a unit, rounded down; points[i] of the code is
\* points[i + 1] here.

\* min_segment_length of _remove_short_segments, 0.2 mm.
MinSegmentLength == 40

\* << >> for None, <<mid>> otherwise.
find_best_midpoint(ctx, start, end) ==
    LET dx == end[1] - start[1]
        dy == end[2] - start[2]
        adx == Abs(dx)
        ady == Abs(dy)
        sx == IF dx > 0 THEN 1 ELSE -1
        sy == IF dy > 0 THEN 1 ELSE -1
        diag == Min2(adx, ady)
        candidates ==
            << <<start[1] + diag * sx, start[2] + diag * sy>>,
               IF adx >= ady THEN <<start[1] + (adx - ady) * sx, start[2]>>
               ELSE <<start[1], start[2] + (ady - adx) * sy>>,
               <<end[1], start[2]>>,
               <<start[1], end[2]>> >>
        valid(mid) ==
            /\ is_45_degree_angle(ctx, mid[1] - start[1], mid[2] - start[2])
            /\ is_45_degree_angle(ctx, end[1] - mid[1], end[2] - mid[2])
            /\ path_clear(ctx, start, mid)
            /\ path_clear(ctx, mid, end)
        path_len(k) == ISqrt(100 * DistSq(start, candidates[k]))
                       + ISqrt(100 * DistSq(candidates[k], end))
        Shortest(ok) ==
            IF ok = {} THEN << >>
            ELSE << candidates[CHOOSE k \in ok :
                        \A j \in ok : \/ path_len(k) < path_len(j)
                                      \/ (path_len(k) = path_len(j) /\ k <= j)] >>
    IN  Shortest({k \in 1..4 : valid(candidates[k])})

\* Pass 4.  An option is the best_path and the savings of a look-ahead j that
\* may replace the best so far: the first of the largest savings is taken.
remove_backtracks(ctx, points) ==
    LET n == Len(points)
        RECURSIVE Loop(_, _)
        Loop(i, result) ==
            IF ~(i < n) THEN result
            ELSE
            LET start == result[Len(result)]
                original_len(j) == path_length(SubSeq(points, i, j))
                direct(j) ==
                    /\ path_clear(ctx, start, points[j])
                    /\ is_45_degree_angle(ctx, points[j][1] - start[1], points[j][2] - start[2])
                Dogleg(j, mid) ==
                    IF mid = << >> THEN [path |-> << >>, savings |-> 0]
                    ELSE LET savings == original_len(j)
                                        - ISqrt(100 * DistSq(start, mid[1]))
                                        - ISqrt(100 * DistSq(mid[1], points[j]))
                         IN  [path |-> mid, savings |-> IF savings > 20 THEN savings ELSE 0]
                option(j) ==
                    IF direct(j)
                    THEN [path |-> << >>,
                          savings |-> original_len(j) - ISqrt(100 * DistSq(start, points[j]))]
                    ELSE Dogleg(j, find_best_midpoint(ctx, start, points[j]))
                Take(opts) ==
                    LET better == {j \in DOMAIN opts : opts[j].savings > 0}
                        best_j == CHOOSE j \in better :
                                      \A k \in better :
                                          \/ opts[j].savings > opts[k].savings
                                          \/ (opts[j].savings = opts[k].savings /\ j <= k)
                    IN  IF better = {} THEN Loop(i + 1, Append(result, points[i + 1]))
                        ELSE Loop(best_j, Append(result \o opts[best_j].path, points[best_j]))
            IN  Take([j \in (i + 2)..Min2(i + 8, n) |-> option(j)])
    IN  IF n < 4 THEN points ELSE Loop(1, <<points[1]>>)

generate_non_reversing_midpoints_generic(start, end, going_positive, axis) ==
    LET dx == end[1] - start[1]
        dy == end[2] - start[2]
        adx == Abs(dx)
        ady == Abs(dy)
        sx == IF dx > 0 THEN 1 ELSE -1
        sy == IF dy > 0 THEN 1 ELSE -1
        diag == Min2(adx, ady)
        diag_d == IF axis = "x" THEN diag * sx ELSE diag * sy
        straight_first ==
            IF axis = "x"
            THEN IF ady > adx THEN << <<start[1], start[2] + (ady - adx) * sy>> >> ELSE << >>
            ELSE IF adx > ady THEN << <<start[1] + (adx - ady) * sx, start[2]>> >> ELSE << >>
        diagonal ==
            IF (going_positive /\ diag_d >= 0) \/ (~going_positive /\ diag_d <= 0)
            THEN << <<start[1] + diag * sx, start[2] + diag * sy>> >> ELSE << >>
        to_end ==
            IF axis = "x"
            THEN IF adx < ady THEN << <<start[1], end[2] - (ady - adx) * sy>> >> ELSE << >>
            ELSE IF ady < adx THEN << <<end[1] - (adx - ady) * sx, start[2]>> >> ELSE << >>
    IN  straight_first \o diagonal \o to_end

\* Pass 5, for one axis.  An option is << >> where the look-ahead j goes on, and
\* <<best_path>> where it breaks the loop.
eliminate_axis_reversals(ctx, points, axis) ==
    LET n == Len(points)
        get_coord(p) == IF axis = "x" THEN p[1] ELSE p[2]
        overall_delta == get_coord(points[n]) - get_coord(points[1])
        going_positive == overall_delta > 0
        not_reversing(delta) == \/ (going_positive /\ delta >= -10)
                                \/ (~going_positive /\ delta <= 10)
        RECURSIVE Loop(_, _)
        Loop(i, result) ==
            IF ~(i < n) THEN result
            ELSE
            LET curr == result[Len(result)]
                next_pt == points[i + 1]
                direct(j) ==
                    /\ path_clear(ctx, curr, points[j])
                    /\ is_45_degree_angle(ctx, points[j][1] - curr[1], points[j][2] - curr[2])
                usable(j, mid) ==
                    /\ path_clear(ctx, curr, mid)
                    /\ path_clear(ctx, mid, points[j])
                    /\ is_45_degree_angle(ctx, mid[1] - curr[1], mid[2] - curr[2])
                    /\ is_45_degree_angle(ctx, points[j][1] - mid[1], points[j][2] - mid[2])
                    /\ not_reversing(get_coord(mid) - get_coord(curr))
                FirstOf(mids) == IF mids = << >> THEN << >> ELSE << <<mids[1]>> >>
                option(j) ==
                    IF ~not_reversing(get_coord(points[j]) - get_coord(curr)) THEN << >>
                    ELSE IF direct(j) THEN << << >> >>
                    ELSE FirstOf(SelectSeq(
                             generate_non_reversing_midpoints_generic(
                                 curr, points[j], going_positive, axis),
                             LAMBDA mid : usable(j, mid)))
                Skip(opts) ==
                    LET breaks == {j \in DOMAIN opts : opts[j] # << >>}
                        best_j == CHOOSE j \in breaks : \A k \in breaks : j <= k
                    IN  IF breaks = {} THEN Loop(i + 1, Append(result, next_pt))
                        ELSE Loop(best_j, Append(result \o opts[best_j][1], points[best_j]))
            IN  IF ~not_reversing(get_coord(next_pt) - get_coord(curr)) /\ i < n - 1
                THEN Skip([j \in (i + 2)..Min2(i + 9, n) |-> option(j)])
                ELSE Loop(i + 1, Append(result, next_pt))
    IN  IF n < 3 \/ Abs(overall_delta) < 20 THEN points ELSE Loop(1, <<points[1]>>)

\* Pass 6.
smooth_corners_45(ctx, points) ==
    LET n == Len(points)
        RECURSIVE Loop(_, _)
        Loop(i, result) ==
            IF ~(i < n) THEN result
            ELSE
            LET last == result[Len(result)]
                Jump(shortcuts) ==
                    LET best_j == IF shortcuts = {} THEN i + 1
                                  ELSE CHOOSE j \in shortcuts : \A k \in shortcuts : k <= j
                    IN  Loop(best_j, Append(result, points[best_j]))
            IN  Jump({j \in (i + 2)..n :
                         /\ is_45_degree_angle(ctx, points[j][1] - last[1], points[j][2] - last[2])
                         /\ path_clear(ctx, last, points[j])})
    IN  IF n < 3 THEN points ELSE Loop(1, <<points[1]>>)

\* Pass 7.  The direction changes by more than 30 degrees (tan 30 degrees =
\* 0.57735); atan2(0, 0) is 0, the direction of (1, 0).
minimize_direction_changes(ctx, points) ==
    LET n == Len(points)
        Turns(u, v) ==
            LET a == IF u = <<0, 0>> THEN <<1, 0>> ELSE u
                b == IF v = <<0, 0>> THEN <<1, 0>> ELSE v
                cross == a[1] * b[2] - a[2] * b[1]
                dot == a[1] * b[1] + a[2] * b[2]
            IN  ~(dot > 0 /\ 1000 * Abs(cross) <= 577 * dot + (35 * dot) \div 100)
        RECURSIVE Loop(_, _)
        Loop(i, result) ==
            IF ~(i < n) THEN result
            ELSE IF i >= n - 1 THEN Loop(i + 1, Append(result, points[i + 1]))
            ELSE
            LET curr == result[Len(result)]
                next_pt == points[i + 1]
                after == points[i + 2]
                Dogleg(mid) ==
                    IF mid # << >> THEN Loop(i + 2, Append(Append(result, mid[1]), after))
                    ELSE Loop(i + 1, Append(result, next_pt))
            IN  IF ~Turns(<<next_pt[1] - curr[1], next_pt[2] - curr[2]>>,
                          <<after[1] - next_pt[1], after[2] - next_pt[2]>>)
                THEN Loop(i + 1, Append(result, next_pt))
                ELSE IF /\ path_clear(ctx, curr, after)
                        /\ is_45_degree_angle(ctx, after[1] - curr[1], after[2] - curr[2])
                THEN Loop(i + 2, Append(result, after))
                ELSE Dogleg(find_best_midpoint(ctx, curr, after))
        Closed(result) ==
            IF result[Len(result)] # points[n] THEN Append(result, points[n]) ELSE result
    IN  IF n < 3 THEN points ELSE Closed(Loop(1, <<points[1]>>))

\* Pass 8.  An option is << >> where the look-ahead j goes on, and <<best_path>>
\* where it breaks the loop.
remove_short_segments(ctx, points) ==
    LET n == Len(points)
        RECURSIVE Loop(_, _)
        Loop(i, result) ==
            IF ~(i < n) THEN result
            ELSE
            LET curr == result[Len(result)]
                next_pt == points[i + 1]
                direct(j) ==
                    /\ path_clear(ctx, curr, points[j])
                    /\ is_45_degree_angle(ctx, points[j][1] - curr[1], points[j][2] - curr[2])
                Dogleg(mid) ==
                    IF mid # << >> /\ DistSq(curr, mid[1]) >= MinSegmentLength * MinSegmentLength
                    THEN << mid >> ELSE << >>
                option(j) ==
                    IF direct(j) THEN << << >> >>
                    ELSE Dogleg(find_best_midpoint(ctx, curr, points[j]))
                Skip(opts) ==
                    LET breaks == {j \in DOMAIN opts : opts[j] # << >>}
                        best_j == CHOOSE j \in breaks : \A k \in breaks : j <= k
                    IN  IF breaks = {} THEN Loop(i + 1, Append(result, next_pt))
                        ELSE Loop(best_j, Append(result \o opts[best_j][1], points[best_j]))
            IN  IF DistSq(curr, next_pt) < MinSegmentLength * MinSegmentLength /\ i < n - 1
                THEN Skip([j \in (i + 2)..Min2(i + 4, n) |-> option(j)])
                ELSE Loop(i + 1, Append(result, next_pt))
    IN  IF n < 3 THEN points ELSE Loop(1, <<points[1]>>)

\* optimize: ctx.none says that the optimizer has no hull map.
optimize(ctx, path) ==
    LET WithHullMap(points) ==
            remove_short_segments(ctx,
                minimize_direction_changes(ctx,
                    smooth_corners_45(ctx,
                        eliminate_axis_reversals(ctx,
                            eliminate_axis_reversals(ctx,
                                remove_backtracks(ctx, points), "x"), "y"))))
        Passes4To9(points) ==
            merge_colinear(IF ctx.none THEN points ELSE WithHullMap(points))
    IN  IF Len(path) < 2 THEN path
        ELSE Passes4To9(merge_colinear(enforce_45_degrees(ctx, remove_duplicates(ctx, path))))

\* ------------------------------------------------------- TraceRouter.route
\* The walkaround backend (use_legacy_astar = False) on one layer, called by the
\* handlers of main.py.  The handlers are coroutines without an await, so the
\* event loop runs each of them to its end before it starts another.

\* The board: one square pad of 0.2 mm on net 1 at the origin.
RoutePads ==
    << [x |-> 0, y |-> 0, width |-> 40, height |-> 40, angle |-> 0, shape |-> "rect",
        layers |-> {"F.Cu"}, net_id |-> 1] >>

RouteLayer == "F.Cu"

\* The bounded inputs of the handlers.
RouteEndpoints ==
    { << <<-250, 61>>, <<250, 61>> >>,
      << <<-250, 5>>, <<250, 5>> >>,
      << <<-250, 5>>, <<0, 0>> >>,
      << <<-90, 47>>, <<250, 47>> >>,
      << <<105, -300>>, <<55, 250>> >> }

RouteNets == {NoNet, 0, 1}

RouteWidths == {20}

RoutePolylines ==
    { << <<150, -100>>, <<150, 100>> >>,
      << <<150, -100>>, <<150, 100>>, <<NonFinite, NonFinite>> >> }

\* reference_path and reference_spacing: none, or a reference below the pad
\* whose offset waypoints are the pad's centre and a point to the right of it.
NoReference == [path |-> << >>, spacing |-> 0]

RouteReferences ==
    { [path |-> << <<0, -100>>, <<200, -100>> >>, spacing |-> 100] }

\* HullGenerator.rotated_rect_hull, for an angle that is a multiple of 22.5
\* degrees: the octagon built around the origin, every point turned by the
\* angle and moved to the centre.
rotated_rect_hull(center, half_width, half_height, angle_deg, clr) ==
    LET hull == octagonal_hull(<<0, 0>>, half_width, half_height, clr)
        k == (angle_deg * 2) \div 45
        cos_a == Cos16(k)
        sin_a == Cos16(k - 4)
    IN  [i \in DOMAIN hull |->
            <<RoundHalfEven(hull[i][1] * cos_a - hull[i][2] * sin_a, 1000) + center[1],
              RoundHalfEven(hull[i][1] * sin_a + hull[i][2] * cos_a, 1000) + center[2]>>]

\* HullMap._create_pad_hull.
create_pad_hull(uid, pad) ==
    LET center == <<pad.x, pad.y>>
        angle_mod == Abs(pad.angle) % 180
        swap_dims == 45 < angle_mod /\ angle_mod < 135
        eff_width == IF swap_dims THEN pad.height ELSE pad.width
        eff_height == IF swap_dims THEN pad.width ELSE pad.height
        half_w == eff_width \div 2
        half_h == eff_height \div 2
        chain ==
            IF pad.shape = "circle"
            THEN circular_hull(center, Min2(half_w, half_h), RouterClearance)
            ELSE IF pad.shape = "oval"
            THEN IF eff_width > eff_height
                 THEN segment_hull(<<pad.x - (eff_width - eff_height) \div 2, pad.y>>,
                                   <<pad.x + (eff_width - eff_height) \div 2, pad.y>>,
                                   eff_height, RouterClearance)
                 ELSE segment_hull(<<pad.x, pad.y - (eff_height - eff_width) \div 2>>,
                                   <<pad.x, pad.y + (eff_height - eff_width) \div 2>>,
                                   eff_width, RouterClearance)
            ELSE IF pad.angle # 0
            THEN rotated_rect_hull(center, half_w, half_h, pad.angle, RouterClearance)
            ELSE octagonal_hull(center, half_w, half_h, RouterClearance)
    IN  IndexedHull(uid, chain, pad.net_id, "pad", uid)

\* HullMap._build_hulls: the pads of the layer, in the order of the parser.
RECURSIVE build_hulls(_, _, _)
build_hulls(pads, layer, hm) ==
    IF pads = << >> THEN hm
    ELSE IF layer \notin Head(pads).layers THEN build_hulls(Tail(pads), layer, hm)
    ELSE LET hull == create_pad_hull(NewUid(hm.hulls), Head(pads))
         IN  build_hulls(Tail(pads), layer,
                         [hulls |-> Append(hm.hulls, hull), pending_hulls |-> << >>,
                          grid |-> add_to_grid(hm.grid, hull)])

\* The TraceRouter of main.py with the hull map of the layer built.
RouteInit ==
    /\ hull_map = build_hulls(RoutePads, RouteLayer,
                              [hulls |-> << >>, pending_hulls |-> << >>, grid |-> << >>])
    /\ route_in = << >>
    /\ walk = << >>
    /\ route_out = [pc |-> "idle"]

\* The most hulls a hull map holds when route is called.
MaxHulls == 3

\* The calls of route: every combination of the inputs without a reference, and
\* the calls with a reference for one pair of endpoints.
RouteCalls ==
    [ends : RouteEndpoints, width : RouteWidths, net_id : RouteNets,
     cap : {WalkIterationCap, RouterMaxIterations}, ref : {NoReference}]
    \cup
    [ends : { << <<-250, 61>>, <<250, 61>> >> }, width : RouteWidths, net_id : {0, 1},
     cap : {WalkIterationCap}, ref : RouteReferences]

\* No handler is running on the event loop.
NoHandlerRunning == route_out.pc = "idle"

\* What the methods called by the running route read.
RouteCtx ==
    [none |-> FALSE, unit |-> 1, g |-> hull_map.grid, trace_width |-> route_in.width,
     net_id |-> route_in.net_id, goal |-> walk.goal,
     reference_path |-> route_in.reference_path,
     reference_spacing |-> route_in.reference_spacing]

\* The locals of _route_segment at its start, with what WalkaroundRouter.route
\* keeps around the call: the targets still to come, full_path, and whether a
\* segment has failed.
RouteSegmentStart(start, targets, full_path, failed) ==
    [path |-> <<start>>, current |-> start, iterations |-> 0,
     visited_hulls |-> {}, best_dist_sq |-> DistSq(start, Head(targets)),
     stall_count |-> 0, returned |-> FALSE, success |-> FALSE,
     goal |-> Head(targets), targets |-> Tail(targets), full_path |-> full_path,
     failed |-> failed]

\* Does WalkaroundRouter.route take its companion branch?
Companion(reference_path, reference_spacing) ==
    reference_path # << >> /\ reference_spacing # 0

\* The targets of WalkaroundRouter.route: waypoints + [end], or the end alone.
RouteTargets(start, end, reference_path, reference_spacing) ==
    IF Companion(reference_path, reference_spacing)
    THEN generate_offset_waypoints([reference_path |-> reference_path,
                                    reference_spacing |-> reference_spacing], start) \o <<end>>
    ELSE <<end>>

\* full_path and current after the segment that has just returned.
SegmentJoined ==
    IF walk.success /\ Len(walk.path) > 1
    THEN [full_path |-> walk.full_path \o Tail(walk.path), current |-> walk.path[Len(walk.path)],
          failed |-> walk.failed]
    ELSE [full_path |-> Append(walk.full_path, walk.goal), current |-> walk.goal,
          failed |-> TRUE]

\* The WalkaroundResult that WalkaroundRouter.route returns, once the last
\* segment has returned.
WalkaroundResult ==
    IF Companion(route_in.reference_path, route_in.reference_spacing)
    THEN [path |-> SegmentJoined.full_path, success |-> TRUE, failed |-> SegmentJoined.failed]
    ELSE [path |-> walk.path, success |-> walk.success, failed |-> ~walk.success]

\* pending_filtered of _route_walkaround.
pending_filtered(layer, net_id) ==
    SelectSeq(traces, LAMBDA t : t.layer = layer /\ (net_id = NoNet \/ t.net_id # net_id))

\* The loop of _route_walkaround over pending_filtered, left by an exception.
RECURSIVE AddPendingTraces(_, _)
AddPendingTraces(hm, pending) ==
    IF hm.raised \/ pending = << >> THEN hm
    ELSE AddPendingTraces(add_pending_trace(hm, Head(pending), 1), Tail(pending))

\* POST /api/traces.
api_register_trace ==
    /\ NoHandlerRunning
    /\ \E id \in {"a"}, s \in RoutePolylines, w \in RouteWidths, l \in Layers, n \in StoreNets :
           add_trace(id, s, w, l, n)

\* DELETE /api/traces/{id}.
api_remove_trace ==
    /\ NoHandlerRunning
    /\ \E id \in {"a"} : remove_trace(id)

\* DELETE /api/traces.
api_clear_all_traces ==
    /\ NoHandlerRunning
    /\ clear

\* route is called: the pending traces of the layer are added to the hull map,
\* outside the try block.  An exception there ends the call.
RouteAddPending ==
    /\ NoHandlerRunning
    /\ Len(hull_map.hulls) <= MaxHulls
    /\ \E call \in RouteCalls :
         \E ends \in {call.ends}, width \in {call.width}, net_id \in {call.net_id},
            cap \in {call.cap}, ref \in {call.ref},
            hm \in { AddPendingTraces([hulls |-> hull_map.hulls,
                                       pending_hulls |-> hull_map.pending_hulls,
                                       grid |-> hull_map.grid, raised |-> FALSE],
                                      pending_filtered(RouteLayer, call.net_id)) } :
            /\ hull_map' = [hulls |-> hm.hulls, pending_hulls |-> hm.pending_hulls,
                            grid |-> hm.grid]
            /\ route_in' = [start |-> ends[1], end |-> ends[2], width |-> width,
                            net_id |-> net_id, max_iterations |-> cap,
                            reference_path |-> ref.path, reference_spacing |-> ref.spacing,
                            before |-> hull_map, store |-> traces]
            /\ walk' = IF hm.raised THEN << >>
                        ELSE RouteSegmentStart(ends[1],
                                               RouteTargets(ends[1], ends[2], ref.path, ref.spacing),
                                               <<ends[1]>>, FALSE)
            /\ route_out' = IF hm.raised
                            THEN [pc |-> "done", outcome |-> "raised", path |-> << >>,
                                  walk_failed |-> FALSE]
                            ELSE [pc |-> "walk", outcome |-> "none", path |-> << >>,
                                  walk_failed |-> FALSE]
    /\ UNCHANGED <<nonRouteVars>>

\* _route_segment: the direct line to the goal is clear.
WalkReachGoal ==
    /\ route_out.pc = "walk"
    /\ walk.iterations < route_in.max_iterations
    /\ find_first_blocking_hull(RouteCtx, walk.current, walk.goal) = << >>
    /\ walk' = [walk EXCEPT !.iterations = @ + 1, !.path = Append(@, walk.goal),
                            !.returned = TRUE, !.success = TRUE]
    /\ route_out' = [route_out EXCEPT !.pc = "walked"]
    /\ UNCHANGED <<hull_map, route_in, nonRouteVars>>

\* _route_segment: a hull blocks the line to the goal.
WalkAroundHull ==
    /\ route_out.pc = "walk"
    /\ walk.iterations < route_in.max_iterations
    /\ \E b \in { find_first_blocking_hull(RouteCtx, walk.current, walk.goal) } :
          /\ b # << >>
          /\ \E w \in { WalkRound(RouteCtx, walk, b[1]) } :
                /\ walk' = w
                /\ route_out' = [route_out EXCEPT !.pc = IF w.returned THEN "walked" ELSE "walk"]
    /\ UNCHANGED <<hull_map, route_in, nonRouteVars>>

\* _route_segment: the loop is over.
WalkMaxIterations ==
    /\ route_out.pc = "walk"
    /\ ~(walk.iterations < route_in.max_iterations)
    /\ walk' = [walk EXCEPT !.returned = TRUE]
    /\ route_out' = [route_out EXCEPT !.pc = "walked"]
    /\ UNCHANGED <<hull_map, route_in, nonRouteVars>>

\* WalkaroundRouter.route with a reference: a segment has returned and targets
\* are left; its path, or the direct connection when it failed, is joined to
\* full_path and the segment to the next target starts.
WalkNextSegment ==
    /\ route_out.pc = "walked"
    /\ walk.targets # << >>
    /\ walk' = RouteSegmentStart(SegmentJoined.current, walk.targets, SegmentJoined.full_path,
                                 SegmentJoined.failed)
    /\ route_out' = [route_out EXCEPT !.pc = "walk"]
    /\ UNCHANGED <<hull_map, route_in, nonRouteVars>>

\* The walkaround failed: route returns what _route_element_aware returns, a
\* path or the empty path, or the exception it raises; the finally block clears
\* the pending hulls.
RouteFallback ==
    /\ route_out.pc = "walked"
    /\ walk.targets = << >>
    /\ ~WalkaroundResult.success
    /\ \E outcome \in {"astar_path", "empty", "raised"} :
          route_out' = [pc |-> "done", outcome |-> outcome, path |-> << >>,
                        walk_failed |-> WalkaroundResult.failed]
    /\ \E hm \in { clear_pending_hulls([hulls |-> hull_map.hulls,
                                        pending_hulls |-> hull_map.pending_hulls,
                                        grid |-> hull_map.grid, raised |-> FALSE]) } :
          hull_map' = [hulls |-> hm.hulls, pending_hulls |-> hm.pending_hulls, grid |-> hm.grid]
    /\ walk' = << >>
    /\ UNCHANGED <<route_in, nonRouteVars>>

\* The walkaround succeeded: the path is optimized, unless a reference path
\* was given, and returned; the finally block clears the pending hulls.
RouteOptimize ==
    /\ route_out.pc = "walked"
    /\ walk.targets = << >>
    /\ WalkaroundResult.success
    /\ \E path \in { IF route_in.reference_path = << >>
                      THEN optimize(RouteCtx, WalkaroundResult.path)
                      ELSE WalkaroundResult.path } :
          route_out' = [pc |-> "done", outcome |-> "path", path |-> path,
                        walk_failed |-> WalkaroundResult.failed]
    /\ \E hm \in { clear_pending_hulls([hulls |-> hull_map.hulls,
                                        pending_hulls |-> hull_map.pending_hulls,
                                        grid |-> hull_map.grid, raised |-> FALSE]) } :
          hull_map' = [hulls |-> hm.hulls, pending_hulls |-> hm.pending_hulls, grid |-> hm.grid]
    /\ walk' = << >>
    /\ UNCHANGED <<route_in, nonRouteVars>>

\* The call is over: the handler answers and the event loop is free again.
RouteReturn ==
    /\ route_out.pc = "done"
    /\ route_in' = << >>
    /\ route_out' = [pc |-> "idle"]
    /\ UNCHANGED <<hull_map, walk, nonRouteVars>>

RouteNext ==
    \/ api_register_trace
    \/ api_remove_trace
    \/ api_clear_all_traces
    \/ RouteAddPending
    \/ WalkReachGoal
    \/ WalkAroundHull
    \/ WalkMaxIterations
    \/ WalkNextSegment
    \/ RouteFallback
    \/ RouteOptimize
    \/ RouteReturn

InitRoute == RouteInit /\ StoreInit /\ AstarIdle /\ OptIdle /\ BoardIdle /\ AutoIdle

SpecRoute == InitRoute /\ [][RouteNext]_vars


\* ---------------------------------------------------- properties of route

\* distance(p, segment a b) < r.  The foot of p on the line is inside the
\* segment when 0 < t < len_sq, and then the distance is cross / sqrt(len_sq).
PointNearSegment(p, a, b, r) ==
    LET d == <<b[1] - a[1], b[2] - a[2]>>
        len_sq == d[1] * d[1] + d[2] * d[2]
        t == (p[1] - a[1]) * d[1] + (p[2] - a[2]) * d[2]
        cross == Abs((p[1] - a[1]) * d[2] - (p[2] - a[2]) * d[1])
    IN  IF len_sq = 0 \/ t <= 0 THEN DistSq(p, a) < r * r
        ELSE IF t >= len_sq THEN DistSq(p, b) < r * r
        ELSE 10 * cross < r * ISqrt(100 * len_sq)

\* distance(segment p1 p2, segment a b) < r.
SegmentsNear(p1, p2, a, b, r) ==
    \/ segment_segment_intersection(p1, p2, a, b) # << >>
    \/ PointNearSegment(p1, a, b, r)
    \/ PointNearSegment(p2, a, b, r)
    \/ PointNearSegment(a, p1, p2, r)
    \/ PointNearSegment(b, p1, p2, r)

\* The four edges of the copper of a pad.
PadEdges(pad) ==
    LET l == pad.x - pad.width \div 2
        r == pad.x + pad.width \div 2
        b == pad.y - pad.height \div 2
        t == pad.y + pad.height \div 2
    IN  { << <<l, b>>, <<r, b>> >>, << <<r, b>>, <<r, t>> >>,
          << <<r, t>>, <<l, t>> >>, << <<l, t>>, <<l, b>> >> }

\* route has returned a path made by the walkaround and the optimizer.
RouteReturnedPath == route_out.pc = "done" /\ route_out.outcome = "path"

\* C1: every segment of a non-empty path returned by route keeps a distance of
\* at least clearance + width/2 - tol from the edge of every pad of another net
\* on the layer, tol being 10 micrometres (2 units) for a path that is not made
\* on the grid.
C1_ClearanceKept ==
    RouteReturnedPath =>
        \A k \in 1..Len(RoutePads) :
            RoutePads[k].net_id # route_in.net_id =>
                \A i \in 1..(Len(route_out.path) - 1), e \in PadEdges(RoutePads[k]) :
                    ~SegmentsNear(route_out.path[i], route_out.path[i + 1], e[1], e[2],
                                  RouterClearance + route_in.width \div 2 - 2)

\* A returned straight path whose centre line is 41 units (0.205 mm) above the
\* upper edge of the pad of net 1, where 0.2 + 0.05 - 0.01 = 0.24 mm are asked.
C1_TooClose ==
    /\ RouteReturnedPath
    /\ route_in.net_id # 1
    /\ route_out.path = << <<-250, 61>>, <<250, 61>> >>
    /\ SegmentsNear(route_out.path[1], route_out.path[2], <<-20, 20>>, <<20, 20>>, 42)
    /\ ~SegmentsNear(route_out.path[1], route_out.path[2], <<-20, 20>>, <<20, 20>>, 41)

\* C2: every call of route on the walkaround backend, whether it returns a
\* path, returns the empty path or raises an exception, ends with no pending
\* hulls in the hull map of the layer, and with the hull list and the spatial
\* grid equal to what they were before the call.
C2_HullMapRestored ==
    route_out.pc = "done" =>
        /\ hull_map.pending_hulls = << >>
        /\ hull_map.hulls = route_in.before.hulls
        /\ hull_map.grid = route_in.before.grid

\* A call that was left by an exception while it added the pending traces and
\* that left pending hulls in the hull map.
C2_LeakedPendingHulls ==
    /\ route_out.pc = "done"
    /\ route_out.outcome = "raised"
    /\ route_in.before.pending_hulls = << >>
    /\ hull_map.pending_hulls # << >>
    /\ Len(hull_map.hulls) > Len(route_in.before.hulls)

\* The segments of the pending traces that the running call has to plan
\* against: those of the traces of the layer in the store when the call began,
\* without the traces of the call's own net.
SnapshotSegments ==
    UNION { { <<route_in.store[k].id, i - 1>> : i \in 1..(Len(route_in.store[k].segments) - 1) } :
            k \in { j \in 1..Len(route_in.store) :
                      /\ route_in.store[j].layer = RouteLayer
                      /\ (route_in.net_id = NoNet \/ route_in.store[j].net_id # route_in.net_id) } }

\* The segments of pending traces that block the running call: those with a hull
\* in the grid that the queries of the call do not skip.
PlannedAgainst ==
    { hull_map.hulls[k].source :
        k \in { j \in 1..Len(hull_map.hulls) :
                  /\ hull_map.hulls[j].source_type = "pending"
                  /\ hull_map.hulls[j].min_x # NonFinite
                  /\ ~(route_in.net_id # NoNet /\ hull_map.hulls[j].net_id = route_in.net_id) } }

\* C3: while a call of route is between adding its pending hulls and clearing
\* them, no registration, removal or clearing of traces has taken effect, and
\* the call plans against exactly the pending traces, without those of its own
\* net, that were in the store when it began.
C3_AtomicSnapshot ==
    route_out.pc \in {"walk", "walked"} =>
        /\ traces = route_in.store
        /\ PlannedAgainst = SnapshotSegments

\* A call that began with an empty store and plans against the hull that an
\* earlier call left behind for a trace removed since.
C3_PlansAgainstRemovedTrace ==
    /\ route_out.pc = "walk"
    /\ route_in.store = << >>
    /\ traces = << >>
    /\ PlannedAgainst # {}

\* A trace of the store is on the layer, has finite points only, and its corridor
\* is crossed by the direct path of the call.
CorridorCrossed(t) ==
    /\ t.layer = RouteLayer
    /\ \A s \in 1..Len(t.segments) : IsFinite(t.segments[s])
    /\ \E s \in 1..(Len(t.segments) - 1) :
           SegmentsNear(route_in.start, route_in.end, t.segments[s], t.segments[s + 1],
                        t.width \div 2 + RouterClearance)

\* C4: after a trace without a net, or with a net other than the route's, is
\* registered on the layer, a later route whose direct path crosses the corridor
\* of the trace returns no path or a path of which no segment lies within
\* width/2 + clearance of the trace, for every net of the route, none and 0
\* included.
C4_PendingTraceAvoided ==
    RouteReturnedPath =>
        \A k \in 1..Len(route_in.store) :
            LET t == route_in.store[k]
            IN  (/\ t.net_id = NoNet \/ t.net_id # route_in.net_id
                 /\ CorridorCrossed(t))
                => \A i \in 1..(Len(route_out.path) - 1), s \in 1..(Len(t.segments) - 1) :
                       ~SegmentsNear(route_out.path[i], route_out.path[i + 1],
                                     t.segments[s], t.segments[s + 1],
                                     t.width \div 2 + RouterClearance)

\* A route of net 0 that is returned straight across a registered trace without
\* a net.
C4_CrossesTraceWithoutNet ==
    /\ RouteReturnedPath
    /\ route_in.net_id = 0
    /\ Len(route_out.path) = 2
    /\ \E k \in 1..Len(route_in.store) :
          /\ route_in.store[k].net_id = NoNet
          /\ CorridorCrossed(route_in.store[k])
          /\ segment_segment_intersection(route_out.path[1], route_out.path[2],
                                          route_in.store[k].segments[1],
                                          route_in.store[k].segments[2]) # << >>

get_trace(trace_id) ==
    LET i == DictIndex(traces, trace_id, 1)
    IN  IF i = 0 THEN << >> ELSE <<traces[i]>>

\* get_all_traces: list(self._traces.values()).
get_all_traces == traces

\* get_traces_by_layer: the values on the layer.
get_traces_by_layer(layer) == SelectSeq(traces, LAMBDA t : t.layer = layer)

\* The abstract map the store stands for: id -> trace, read through get_trace.
AbstractMap ==
    [id \in { id \in TraceIds : get_trace(id) # << >> } |-> get_trace(id)[1]]

\* AbstractMap in the next state.
AbstractMapNext ==
    [id \in { id \in TraceIds : get_trace(id)' # << >> } |-> get_trace(id)'[1]]

\* The operations of the abstract map.
MapPut(f, t) == [id \in (DOMAIN f) \cup {t.id} |-> IF id = t.id THEN t ELSE f[id]]

MapDelete(f, id) == [k \in (DOMAIN f) \ {id} |-> f[k]]

\* The elements of a list.
Elements(q) == { q[i] : i \in 1..Len(q) }

\* The three reads show the same map: get_all_traces lists each entry once,
\* under its own id, and get_traces_by_layer lists the entries of the layer.
ViewsAgree ==
    /\ Len(get_all_traces) = Cardinality(DOMAIN AbstractMap)
    /\ Elements(get_all_traces) = { AbstractMap[id] : id \in DOMAIN AbstractMap }
    /\ \A id \in DOMAIN AbstractMap : AbstractMap[id].id = id
    /\ \A l \in Layers :
          /\ Elements(get_traces_by_layer(l)) =
                { AbstractMap[id] : id \in { k \in DOMAIN AbstractMap : AbstractMap[k].layer = l } }
          /\ Len(get_traces_by_layer(l)) = Cardinality(Elements(get_traces_by_layer(l)))

\* C16: the pending store behaves as a map from id to trace.  The traces seen
\* through get_trace, get_all_traces and get_traces_by_layer are those of one
\* abstract map; add_trace overwrites the entry of its id, remove_trace deletes
\* the entry and returns true exactly when it existed (false leaves the state
\* unchanged), clear empties the map, and get_blocked_cells leaves it alone.
C16_StoreIsMap ==
    /\ []ViewsAgree
    /\ [][/\ ret'.op = "add_trace" =>
                \A id \in TraceIds, s \in StorePolylines, w \in StoreWidths, l \in Layers,
                   n \in StoreNets :
                    add_trace(id, s, w, l, n) =>
                        AbstractMapNext = MapPut(AbstractMap, PendingTrace(id, s, w, l, n))
          /\ ret'.op = "remove_trace" =>
                \A id \in TraceIds :
                    remove_trace(id) =>
                        /\ AbstractMapNext = MapDelete(AbstractMap, id)
                        /\ ret'.found = (id \in DOMAIN AbstractMap)
                        /\ (~ret'.found => /\ traces' = traces
                                           /\ blocked_cells_cache' = blocked_cells_cache)
          /\ ret'.op = "clear" => DOMAIN AbstractMapNext = {}
          /\ ret'.op = "get_blocked_cells" => AbstractMapNext = AbstractMap]_vars

\* An id was added again on the other layer (the cache of its first layer is
\* still there), and a remove of a missing id came last.
C16_OverwrittenThenMissed ==
    /\ ret.op = "remove_trace"
    /\ ~ret.found
    /\ Len(traces) = 1
    /\ traces[1].id = "b"
    /\ traces[1].layer = "B.Cu"
    /\ "F.Cu" \in DOMAIN blocked_cells_cache
    /\ blocked_cells_cache["F.Cu"] # {}

\* The store as clear leaves it, and as calls of get_blocked_cells on the empty
\* store leave it: no trace, and nothing but empty sets in the cache.
Cleared ==
    /\ traces = << >>
    /\ \A l \in DOMAIN blocked_cells_cache : blocked_cells_cache[l] = {}

\* The store between add_trace(X) and remove_trace(X.id): X alone is stored,
\* and the cache holds nothing but empty sets for the layers other than X's.
HoldsOnlyX ==
    /\ Len(traces) = 1
    /\ \A l \in DOMAIN blocked_cells_cache :
          l # traces[1].layer => blocked_cells_cache[l] = {}

\* C17: starting from a cleared store, add_trace(X) followed by
\* remove_trace(X.id) leaves the store empty and makes get_blocked_cells on
\* X.layer return the set it returned before the add (the empty set), also when
\* get_blocked_cells is called between the two.  Step by step: the add leads
\* from a cleared store to one that holds only X, get_blocked_cells keeps it
\* so, the remove of X.id leads back to a cleared store, and there
\* get_blocked_cells returns the empty set.
C17_AddRemoveRoundTrip ==
    [][/\ (Cleared /\ ret'.op = "add_trace") => HoldsOnlyX'
       /\ (HoldsOnlyX /\ ret'.op = "get_blocked_cells") => HoldsOnlyX'
       /\ (HoldsOnlyX /\ ret'.op = "remove_trace" /\ ret'.found) => Cleared'
       /\ (Cleared /\ ret'.op = "get_blocked_cells") => (ret'.cells = {} /\ Cleared')]_vars

\* The remove of X.id has found X and left a cleared store: no trace, and in the
\* cache only the empty set that was computed for the other layer.
C17_RemovedBackToCleared ==
    /\ ret.op = "remove_trace"
    /\ ret.found
    /\ Cleared
    /\ DOMAIN blocked_cells_cache = {"B.Cu"}

\* ------------------------------------------- properties of the route result

\* C15: every successful route result is a path of at least 2 points, for every
\* start and end, also when they coincide or fall in the same grid cell.  The
\* grid backend returns the path of the grid search unchanged.
C15_AtLeastTwoPoints ==
    (astar_out.pc = "done" /\ astar_out.path # << >>) => Len(astar_out.path) >= 2

\* The search has returned a path of one point for a start and an end in the
\* same grid cell.
C15_SinglePoint ==
    /\ astar_out.pc = "done"
    /\ start_g = end_g
    /\ Len(astar_out.path) = 1

\* C14: whenever the walkaround planner fails on a route, also when it fails on
\* a segment between the waypoints of a reference, route returns the result of
\* the A* fallback on the same inputs and no path derived from the walkaround.
C14_FailedWalkFallsBack ==
    (route_out.pc = "done" /\ route_out.walk_failed) =>
        route_out.outcome \in {"astar_path", "empty", "raised"}

\* The segment to the first waypoint failed, and route has returned the path
\* that joins the waypoints by direct connections.
C14_DirectConnectionReturned ==
    /\ route_out.pc = "done"
    /\ route_out.walk_failed
    /\ route_out.outcome = "path"
    /\ route_in.reference_path # << >>
    /\ route_in.net_id # 1
    /\ Len(route_out.path) >= 2
    /\ route_out.path[2] = <<0, 0>>

\* C20: every path that route returns when a reference_path and a
\* reference_spacing are given consists of horizontal, vertical and 45-degree
\* diagonal segments only, as for the routes without a reference.
C20_CompanionOnly45Degrees ==
    (/\ RouteReturnedPath
     /\ Companion(route_in.reference_path, route_in.reference_spacing)) =>
        \A i \in 1..(Len(route_out.path) - 1) :
            is_45_degree_angle([unit |-> 1], route_out.path[i + 1][1] - route_out.path[i][1],
                               route_out.path[i + 1][2] - route_out.path[i][2])

\* A route along the reference on the reference's own net (no segment failed)
\* that goes from the start to the first waypoint at an angle of about 14 degrees.
C20_CompanionOffAngle ==
    /\ RouteReturnedPath
    /\ Companion(route_in.reference_path, route_in.reference_spacing)
    /\ ~route_out.walk_failed
    /\ route_out.path[1] = <<-250, 61>>
    /\ route_out.path[2] = <<0, 0>>
    /\ ~is_45_degree_angle([unit |-> 1], 250, -61)


\* ------------------------------------------------------------ the board
\*
\* The parsed board is a record of the PCBParser's lists: pads (x, y, width,
\* height, angle, shape, layers, net_id), traces (start, end, width, layer,
\* net_id), vias (x, y, size, net_id) and edge_cuts (start, end, width), with
\* the options of the TraceRouter built on it.  Sizes are even numbers of
\* units, so that every half-size is a whole number.

\* TraceRouter.COPPER_LAYERS, in the order check_via_placement visits them.
COPPER_LAYERS == <<"F.Cu", "B.Cu", "In1.Cu", "In2.Cu">>

\* ceil(sqrt(n) / d) for n >= 0, d > 0: the least k with (d * k)^2 >= n.
CeilRootDiv(n, d) ==
    LET k == ISqrt(n) \div d
    IN  IF (d * k) * (d * k) >= n THEN k ELSE k + 1

\* The cells (gx1..gx2) x (gy1..gy2).
CellBox(gx1, gx2, gy1, gy2) == (gx1..gx2) \X (gy1..gy2)

\* ObstacleMap._block_circle, given 4 * r * r for the inflated radius r (the
\* radius of a rotated pad's bounding circle is half a square root): the cells
\* of the window whose centre is within r of the circle's centre.
block_circle(cx, cy, r_sq4) ==
    LET g == to_grid(cx, cy, GridResolution)
        gr == CeilRootDiv(r_sq4, 2 * GridResolution) + 1
    IN  { c \in CellBox(g[1] - gr, g[1] + gr, g[2] - gr, g[2] + gr) :
            4 * DistSq(<<c[1] * GridResolution, c[2] * GridResolution>>, <<cx, cy>>) <= r_sq4 }

\* ObstacleMap._block_rect: the inflated rectangle, cell by cell between the
\* cells of its corners; a rotated rectangle is its bounding circle.
block_rect(cx, cy, width, height, angle) ==
    LET w == width + 2 * RouterClearance
        h == height + 2 * RouterClearance
        g1 == to_grid(cx - w \div 2, cy - h \div 2, GridResolution)
        g2 == to_grid(cx + w \div 2, cy + h \div 2, GridResolution)
    IN  IF angle # 0 THEN block_circle(cx, cy, w * w + h * h)
        ELSE CellBox(g1[1], g2[1], g1[2], g2[2])

\* The point p is within r of the segment a-b: the projection test of
\* ObstacleMap._block_line and TraceRouter._point_to_segment_distance,
\* multiplied through by the squared length.
WithinOfSegment(p, a, b, r) ==
    LET dx == b[1] - a[1]
        dy == b[2] - a[2]
        length_sq == dx * dx + dy * dy
        dot == (p[1] - a[1]) * dx + (p[2] - a[2]) * dy
    IN  IF dot <= 0 THEN DistSq(a, p) <= r * r
        ELSE IF dot >= length_sq THEN DistSq(b, p) <= r * r
        ELSE DistSq(a, p) * length_sq - dot * dot <= r * r * length_sq

\* ObstacleMap._block_line: the cells of the capsule's bounding box whose centre
\* is within width / 2 + clearance of the segment.
block_line(a, b, width) ==
    LET r == width \div 2 + RouterClearance
        g1 == to_grid(Min2(a[1], b[1]) - r, Min2(a[2], b[2]) - r, GridResolution)
        g2 == to_grid(Max2(a[1], b[1]) + r, Max2(a[2], b[2]) + r, GridResolution)
    IN  IF a = b THEN block_circle(a[1], a[2], 4 * r * r)
        ELSE { c \in CellBox(g1[1], g2[1], g1[2], g2[2]) :
                 WithinOfSegment(<<c[1] * GridResolution, c[2] * GridResolution>>, a, b, r) }

\* What ObstacleMap._build_obstacles writes for one pad.
PadBlocked(pad) ==
    IF pad.shape = "circle"
    THEN LET r == Min2(pad.width, pad.height) \div 2 + RouterClearance
         IN  block_circle(pad.x, pad.y, 4 * r * r)
    ELSE IF pad.shape = "oval"
    THEN LET r == Max2(pad.width, pad.height) \div 2 + RouterClearance
         IN  block_circle(pad.x, pad.y, 4 * r * r)
    ELSE block_rect(pad.x, pad.y, pad.width, pad.height, pad.angle)

\* ObstacleMap._build_obstacles: what is written into _blocked, as the list of
\* the cell sets of the pads and traces of the layer, the vias and the edge
\* cuts, the objects of the allowed net (when there is one) being skipped.
build_obstacles(b, layer, allowed_net_id) ==
    LET Skipped(n) == allowed_net_id # NoNet /\ n = allowed_net_id
        on_pads == SelectSeq(b.pads, LAMBDA pad : layer \in pad.layers /\ ~Skipped(pad.net_id))
        on_traces == SelectSeq(b.traces, LAMBDA trace : trace.layer = layer /\ ~Skipped(trace.net_id))
        on_vias == SelectSeq(b.vias, LAMBDA via : ~Skipped(via.net_id))
    IN  [i \in DOMAIN on_pads |-> PadBlocked(on_pads[i])]
        \o [i \in DOMAIN on_traces |-> block_line(on_traces[i].start, on_traces[i].end, on_traces[i].width)]
        \o [i \in DOMAIN on_vias |->
                block_circle(on_vias[i].x, on_vias[i].y,
                             4 * (on_vias[i].size \div 2 + RouterClearance) * (on_vias[i].size \div 2 + RouterClearance))]
        \o [i \in DOMAIN b.edge_cuts |->
                block_line(b.edge_cuts[i].start, b.edge_cuts[i].end, b.edge_cuts[i].width + 2 * RouterClearance)]

\* (gx, gy) in _blocked, for the list of cell sets that were written.
InBlocked(blocked, c) == \E i \in DOMAIN blocked : c \in blocked[i]

\* ObstacleMap.is_blocked(x, y, radius): the cell of the point is blocked, or
\* with a radius some blocked cell of the window has its centre within the
\* radius of the point.
map_is_blocked(b, layer, allowed_net_id, x, y, radius) ==
    LET g == to_grid(x, y, GridResolution)
        gr == CeilRootDiv(radius * radius, GridResolution) + 1
        blocked == build_obstacles(b, layer, allowed_net_id)
    IN  IF radius <= 0 THEN InBlocked(blocked, g)
        ELSE \E c \in CellBox(g[1] - gr, g[1] + gr, g[2] - gr, g[2] + gr) :
                /\ DistSq(<<c[1] * GridResolution, c[2] * GridResolution>>, <<x, y>>) <= radius * radius
                /\ InBlocked(blocked, c)


\* The cells within rx and ry cells of g along the two axes.
CellRect(g, rx, ry) == CellBox(g[1] - rx, g[1] + rx, g[2] - ry, g[2] + ry)

\* The cells within r cells of g: dx * dx + dy * dy <= r * r.
CellDisk(g, r) ==
    { c \in CellRect(g, r, r) :
        (c[1] - g[1]) * (c[1] - g[1]) + (c[2] - g[2]) * (c[2] - g[2]) <= r * r }

\* TraceRouter._get_net_cells, different_net_blocked: the disk of r cells around
\* every pad of the layer that is not of the net, r from the larger inflated
\* side (from the inflated diagonal for a rotated pad).
different_net_blocked(b, layer, net_id, c) ==
    \E i \in DOMAIN b.pads :
        LET pad == b.pads[i]
            w == pad.width + 2 * RouterClearance
            h == pad.height + 2 * RouterClearance
            r == IF pad.angle # 0
                 THEN ISqrt(w * w + h * h) \div (2 * GridResolution) + 1
                 ELSE (Max2(w, h) \div 2) \div GridResolution + 1
        IN  /\ layer \in pad.layers
            /\ pad.net_id # net_id
            /\ c \in CellDisk(to_grid(pad.x, pad.y, GridResolution), r)

\* TraceRouter._get_net_cells, the cells along one trace of the net: the square
\* of the trace's half width around the cell of each of steps + 1 points.
TraceNetCells(trace, c) ==
    LET dx == trace.end[1] - trace.start[1]
        dy == trace.end[2] - trace.start[2]
        steps == ISqrt(dx * dx + dy * dy) \div GridResolution + 1
        r == (trace.width \div 2) \div GridResolution + 1
    IN  IF dx = 0 /\ dy = 0 THEN c = to_grid(trace.start[1], trace.start[2], GridResolution)
        ELSE \E i \in 0..steps :
                c \in CellRect(<<RoundHalfEven(trace.start[1] * steps + i * dx, steps * GridResolution),
                                   RoundHalfEven(trace.start[2] * steps + i * dy, steps * GridResolution)>>,
                                 r, r)

\* TraceRouter._get_net_cells(layer, net_id), as the test of one cell.
get_net_cells(b, layer, net_id, c) ==
    \/ \E i \in DOMAIN b.pads :
          LET pad == b.pads[i]
              g == to_grid(pad.x, pad.y, GridResolution)
              w == pad.width + 2 * RouterClearance
              h == pad.height + 2 * RouterClearance
              r == ISqrt(w * w + h * h) \div (2 * GridResolution) + 1
              rx == (pad.width \div 2 + RouterClearance) \div GridResolution + 1
              ry == (pad.height \div 2 + RouterClearance) \div GridResolution + 1
          IN  /\ layer \in pad.layers
              /\ pad.net_id = net_id
              /\ \/ c \in CellRect(g, 1, 1)
                 \/ /\ c \in (IF pad.angle # 0 THEN CellDisk(g, r) ELSE CellRect(g, rx, ry))
                    /\ ~different_net_blocked(b, layer, net_id, c)
    \/ \E i \in DOMAIN b.traces :
          /\ b.traces[i].layer = layer
          /\ b.traces[i].net_id = net_id
          /\ TraceNetCells(b.traces[i], c)
    \/ \E i \in DOMAIN b.vias :
          /\ b.vias[i].net_id = net_id
          /\ c \in CellRect(to_grid(b.vias[i].x, b.vias[i].y, GridResolution),
                              (b.vias[i].size \div 2) \div GridResolution + 1,
                              (b.vias[i].size \div 2) \div GridResolution + 1)

\* astar_search, lines 147-155, and _expand_cells_fast: the allowed cells the
\* search works with, as the test of one cell.  They are the net's cells
\* dilated by the disk of ceil(trace_radius / resolution) cells.
expand_cells_fast(b, layer, net_id, trace_radius, c) ==
    IF trace_radius <= 0 THEN get_net_cells(b, layer, net_id, c)
    ELSE \E d \in CellDisk(c, CeilRootDiv(trace_radius * trace_radius, GridResolution)) :
            get_net_cells(b, layer, net_id, d)

\* The default tolerance of find_net_at_point, 0.5 mm.
find_tolerance == 100

\* TraceRouter.find_net_at_point, the loop over the pads of the layer and then
\* the vias: objs[i] is <<squared distance, net_id>>; an object takes over when
\* it is within the tolerance and strictly closer than the best so far.
RECURSIVE ClosestNet(_, _, _, _)
ClosestNet(objs, i, best_sq, best_net_id) ==
    IF i > Len(objs) THEN best_net_id
    ELSE IF objs[i][1] <= find_tolerance * find_tolerance /\ objs[i][1] < best_sq
         THEN ClosestNet(objs, i + 1, objs[i][1], objs[i][2])
         ELSE ClosestNet(objs, i + 1, best_sq, best_net_id)

\* TraceRouter.find_net_at_point(x, y, layer): the net of the closest pad of
\* the layer or via within the tolerance, NoNet when there is none.
find_net_at_point(b, x, y, layer) ==
    LET on_layer == SelectSeq(b.pads, LAMBDA pad : layer \in pad.layers)
        pads == [i \in DOMAIN on_layer |->
                     <<DistSq(<<on_layer[i].x, on_layer[i].y>>, <<x, y>>), on_layer[i].net_id>>]
        vias == [i \in DOMAIN b.vias |->
                     <<DistSq(<<b.vias[i].x, b.vias[i].y>>, <<x, y>>), b.vias[i].net_id>>]
    IN  ClosestNet(pads \o vias, 1, (find_tolerance + 1) * (find_tolerance + 1), NoNet)

\* TraceRouter._is_same_net_only(x, y, radius, layer, net_id): no pad or trace of
\* the layer and no via of another net is within check_radius plus its own
\* inflated radius of the point.
is_same_net_only(b, x, y, radius, layer, net_id) ==
    LET check_radius == radius + RouterClearance
        Reach(r) == (check_radius + r) * (check_radius + r)
    IN  /\ \A i \in DOMAIN b.pads :
              (/\ layer \in b.pads[i].layers
               /\ DistSq(<<b.pads[i].x, b.pads[i].y>>, <<x, y>>)
                     <= Reach(Max2(b.pads[i].width, b.pads[i].height) \div 2 + RouterClearance))
              => b.pads[i].net_id = net_id
        /\ \A i \in DOMAIN b.traces :
              (/\ b.traces[i].layer = layer
               /\ WithinOfSegment(<<x, y>>, b.traces[i].start, b.traces[i].end,
                                  check_radius + b.traces[i].width \div 2 + RouterClearance))
              => b.traces[i].net_id = net_id
        /\ \A i \in DOMAIN b.vias :
              DistSq(<<b.vias[i].x, b.vias[i].y>>, <<x, y>>) <= Reach(b.vias[i].size \div 2 + RouterClearance)
              => b.vias[i].net_id = net_id

\* ElementAwareMap.is_blocked(x, y, radius, net_id): the point, inflated by the
\* radius and the clearance, overlaps the copper of a pad or trace of the layer
\* or of a via that is of another net (of any net when net_id is None).  A
\* round pad is its circle, a rotated rectangle its bounding circle, and
\* RectDistSq is the squared distance to a rectangle that is not rotated.
element_is_blocked(b, layer, x, y, radius, net_id) ==
    LET reach == radius + RouterClearance
        Other(n) == net_id = NoNet \/ n # net_id
        RectDistSq(cx, cy, width, height) ==
            LET dx == Max2(Abs(x - cx) - width \div 2, 0)
                dy == Max2(Abs(y - cy) - height \div 2, 0)
            IN  dx * dx + dy * dy
        PadNear(pad) ==
            IF pad.shape = "circle"
            THEN LET r == reach + Min2(pad.width, pad.height) \div 2
                 IN  DistSq(<<pad.x, pad.y>>, <<x, y>>) <= r * r
            ELSE IF pad.shape = "oval"
            THEN LET r == reach + Max2(pad.width, pad.height) \div 2
                 IN  DistSq(<<pad.x, pad.y>>, <<x, y>>) <= r * r
            ELSE IF pad.angle # 0
            THEN LET r == reach + CeilRootDiv(pad.width * pad.width + pad.height * pad.height, 2)
                 IN  DistSq(<<pad.x, pad.y>>, <<x, y>>) <= r * r
            ELSE RectDistSq(pad.x, pad.y, pad.width, pad.height) <= reach * reach
    IN  \/ \E i \in DOMAIN b.pads :
              layer \in b.pads[i].layers /\ Other(b.pads[i].net_id) /\ PadNear(b.pads[i])
        \/ \E i \in DOMAIN b.traces :
              /\ b.traces[i].layer = layer
              /\ Other(b.traces[i].net_id)
              /\ WithinOfSegment(<<x, y>>, b.traces[i].start, b.traces[i].end,
                                 reach + b.traces[i].width \div 2)
        \/ \E i \in DOMAIN b.vias :
              /\ Other(b.vias[i].net_id)
              /\ LET r == reach + b.vias[i].size \div 2
                 IN  DistSq(<<b.vias[i].x, b.vias[i].y>>, <<x, y>>) <= r * r

\* TraceRouter.check_via_placement, one layer of the loop: the layer reports a
\* clearance violation.
LayerViolation(b, layer, x, y, via_radius, net_id) ==
    IF b.use_element_aware
    THEN element_is_blocked(b, layer, x, y, via_radius, net_id)
    ELSE IF b.cache_obstacles /\ b.use_legacy_astar
    THEN /\ map_is_blocked(b, layer, NoNet, x, y, via_radius)
         /\ ~(net_id # NoNet /\ is_same_net_only(b, x, y, via_radius, layer, net_id))
    ELSE map_is_blocked(b, layer, net_id, x, y, via_radius)

\* TraceRouter.check_via_placement(x, y, via_radius, net_id): the first copper
\* layer with a violation, named in the message, or (True, "").
check_via_placement(b, x, y, via_radius, net_id) ==
    LET bad == { i \in DOMAIN COPPER_LAYERS : LayerViolation(b, COPPER_LAYERS[i], x, y, via_radius, net_id) }
    IN  IF bad = {} THEN [valid |-> TRUE, layer |-> ""]
        ELSE [valid |-> FALSE, layer |-> COPPER_LAYERS[CHOOSE i \in bad : \A j \in bad : i <= j]]

\* pcb_parser.nets.get(net_id, f"Net {net_id}"): the name of a net.
NetName(b, net_id) == IF net_id \in DOMAIN b.nets THEN b.nets[net_id] ELSE <<"Net", net_id>>

\* route_trace, up to the call of trace_router.route: the response of the
\* request guards, or the net the request is routed with when it passes them.
\* The message of the different-net rejection is kept as the two names it is
\* formatted from.
route_trace_guards(b, request) ==
    LET net_id == IF request.net_id # NoNet THEN request.net_id
                  ELSE find_net_at_point(b, request.start[1], request.start[2], request.layer)
        end_net_id == find_net_at_point(b, request.end[1], request.end[2], request.layer)
        trace_radius == request.width \div 2
        start_blocked == element_is_blocked(b, request.layer, request.start[1], request.start[2],
                                            trace_radius, net_id)
        end_blocked == IF ~request.skip_endpoint_check
                       THEN element_is_blocked(b, request.layer, request.end[1], request.end[2],
                                               trace_radius, net_id)
                       ELSE FALSE
        Rejected(msg) == [passed |-> FALSE, success |-> FALSE, path |-> << >>, message |-> msg]
    IN  IF ~request.skip_endpoint_check /\ end_net_id # NoNet /\ net_id # NoNet /\ end_net_id # net_id
        THEN Rejected([text |-> "Cannot route to different net",
                       endpoint_on |-> NetName(b, end_net_id),
                       routing_from |-> NetName(b, net_id)])
        ELSE IF start_blocked /\ end_blocked
        THEN Rejected([text |-> "Both start and end points are blocked"])
        ELSE IF start_blocked
        THEN Rejected([text |-> "Start point is blocked (inside obstacle/clearance zone)"])
        ELSE IF end_blocked
        THEN Rejected([text |-> "End point is blocked (inside obstacle/clearance zone)"])
        ELSE [passed |-> TRUE, net_id |-> net_id]


\* ------------------------------------------------- the board, its queries
\*
\* The boards: a pad of net 1 at the origin, a pad of net 2 to its right or
\* above right, at gaps from just above the clearance, and optionally a trace
\* and a via of net 1, a via of net 2 and an edge cut.  The options are those
\* of main.py, of the grid search with cached maps, and of no cache at all.
\* Round objects sit off the grid and sizes are chosen so that no cell centre
\* is exactly at an inflated radius, where the code's floats decide by their
\* last bit.

PadA == [x |-> 0, y |-> 0, width |-> 20, height |-> 20, angle |-> 0, shape |-> "rect",
         layers |-> {"F.Cu"}, net_id |-> 1]

PadBs ==
    { [x |-> p[1], y |-> p[2], width |-> 20, height |-> 20, angle |-> a, shape |-> s,
       layers |-> l, net_id |-> 2] :
         p \in { <<61, 0>>, <<100, 0>>, <<100, 100>>, <<300, 0>> },
         a \in {0},
         s \in {"rect"},
         l \in { {"F.Cu"} } }
    \cup
    { [x |-> 100, y |-> 0, width |-> 20, height |-> 24, angle |-> 45, shape |-> "rect",
       layers |-> {"F.Cu"}, net_id |-> 2],
      [x |-> 101, y |-> 0, width |-> 20, height |-> 20, angle |-> 0, shape |-> "circle",
       layers |-> {"F.Cu", "B.Cu"}, net_id |-> 2],
      [x |-> 300, y |-> 0, width |-> 20, height |-> 40, angle |-> 0, shape |-> "oval",
       layers |-> {"B.Cu"}, net_id |-> 2] }

BoardExtras ==
    { [traces |-> << >>, vias |-> << >>, edge_cuts |-> << >>],
      [traces |-> << [start |-> <<0, 1>>, end |-> <<40, 1>>, width |-> 20, layer |-> "F.Cu", net_id |-> 1] >>,
       vias |-> << [x |-> 1, y |-> -150, size |-> 60, net_id |-> 1],
                   [x |-> 1, y |-> 200, size |-> 60, net_id |-> 2] >>,
       edge_cuts |-> << [start |-> <<-201, -30>>, end |-> <<-201, 30>>, width |-> 20] >>] }

RouterOptions ==
    { [cache_obstacles |-> TRUE, use_element_aware |-> TRUE, use_legacy_astar |-> FALSE],
      [cache_obstacles |-> TRUE, use_element_aware |-> FALSE, use_legacy_astar |-> TRUE],
      [cache_obstacles |-> FALSE, use_element_aware |-> FALSE, use_legacy_astar |-> FALSE] }

Boards ==
    { [pads |-> <<PadA, pb>>, traces |-> ex.traces, vias |-> ex.vias, edge_cuts |-> ex.edge_cuts,
       nets |-> [n \in {1, 2} |-> IF n = 1 THEN "GND" ELSE "VCC"],
       cache_obstacles |-> o.cache_obstacles, use_element_aware |-> o.use_element_aware,
       use_legacy_astar |-> o.use_legacy_astar] :
         pb \in PadBs, ex \in BoardExtras, o \in RouterOptions }

BoardNets == {NoNet, 1, 2}

\* The trace radii of the searches, and the via radius.
TraceRadii == {0, 10}

ViaRadius == 31

\* Points of a pad: its centre, the ends of its half axes (both within a pad
\* turned by any angle when the pad is square) and, for a pad that is not
\* turned, its corners.
PadPoints(pad) ==
    LET hw == Min2(pad.width, pad.height) \div 2
    IN  { <<pad.x, pad.y>>, <<pad.x - hw, pad.y>>, <<pad.x + hw, pad.y>>,
          <<pad.x, pad.y - hw>>, <<pad.x, pad.y + hw>> }
        \cup
        (IF pad.angle = 0 /\ pad.shape = "rect"
         THEN { <<pad.x + sx * (pad.width \div 2), pad.y + sy * (pad.height \div 2)>> :
                    sx \in {-1, 1}, sy \in {-1, 1} }
         ELSE {})

\* The points the board is asked about: points of its pads, a point 0.41 mm
\* left of the first pad's centre, and a point in the open.
BoardPoints(b) ==
    UNION { PadPoints(b.pads[i]) : i \in DOMAIN b.pads } \cup { <<-82, 0>>, <<0, 100>> }

BoardInit ==
    /\ board \in Boards
    /\ board_out = [op |-> "idle"]
    /\ expanded_cache = << >>

\* The queries change nothing on the board or in the router, so that one query
\* on each loaded board shows all there is: nothing was asked yet.
NotAsked == board_out.op = "idle"

\* _route_legacy with a net on a cached layer, down to lines 147-155 of
\* astar_search: the allowed cells the search works with, of which the ones
\* that a different-net object blocks are kept.
LegacyAllowedCells(layer, net_id, trace_radius) ==
    /\ NotAsked
    /\ board.use_legacy_astar /\ ~board.use_element_aware /\ board.cache_obstacles
    /\ net_id # NoNet
    /\ board_out' =
          [op |-> "allowed_cells", layer |-> layer, net_id |-> net_id, trace_radius |-> trace_radius,
           allowed_at_pad |-> expand_cells_fast(board, layer, net_id, trace_radius, to_grid(PadA.x, PadA.y, GridResolution)),
           blocked_allowed |->
               LET blocked == build_obstacles([board EXCEPT !.edge_cuts = << >>], layer, net_id)
               IN  UNION { { c \in blocked[i] : expand_cells_fast(board, layer, net_id, trace_radius, c) } :
                             i \in DOMAIN blocked }]
    /\ UNCHANGED <<board, expanded_cache, nonBoardVars>>

\* ObstacleMap(parser, layer, clearance, grid_resolution, allowed_net_id) is
\* built and is_blocked(x, y, radius) is asked.
ObstacleQuery(layer, allowed_net_id, p, radius) ==
    /\ NotAsked
    /\ board_out' =
          [op |-> "is_blocked", layer |-> layer, allowed_net_id |-> allowed_net_id, point |-> p,
           radius |-> radius,
           blocked |-> map_is_blocked(board, layer, allowed_net_id, p[1], p[2], radius)]
    /\ UNCHANGED <<board, expanded_cache, nonBoardVars>>

\* check_via_placement of main.py: trace_router.check_via_placement(x, y, size / 2, net_id).
CheckVia(p, via_radius, net_id) ==
    /\ NotAsked
    /\ board_out' =
          [op |-> "check_via_placement", point |-> p, via_radius |-> via_radius, net_id |-> net_id,
           result |-> check_via_placement(board, p[1], p[2], via_radius, net_id)]
    /\ UNCHANGED <<board, expanded_cache, nonBoardVars>>

\* route_trace of main.py, whose router is built with the default options: the
\* request guards.
RouteTraceGuards(request) ==
    /\ NotAsked
    /\ board.use_element_aware /\ board.cache_obstacles /\ ~board.use_legacy_astar
    /\ board_out' =
          [op |-> "route_trace", request |-> request,
           response |-> route_trace_guards(board, request)]
    /\ UNCHANGED <<board, expanded_cache, nonBoardVars>>

BoardRequests(b) ==
    [start : {<<0, 0>>, <<-82, 0>>}, end : {<<b.pads[2].x, b.pads[2].y>>, <<0, 100>>},
     layer : {"F.Cu"}, width : {20}, net_id : BoardNets, skip_endpoint_check : BOOLEAN]

BoardNext ==
    \/ \E layer \in {"F.Cu", "B.Cu"}, net_id \in BoardNets, r \in TraceRadii :
          LegacyAllowedCells(layer, net_id, r)
    \/ \E layer \in {"F.Cu", "B.Cu"}, allowed_net_id \in BoardNets, p \in BoardPoints(board), r \in {0, ViaRadius} :
          ObstacleQuery(layer, allowed_net_id, p, r)
    \/ \E p \in BoardPoints(board), net_id \in BoardNets :
          CheckVia(p, ViaRadius, net_id)
    \/ \E request \in BoardRequests(board) :
          RouteTraceGuards(request)

InitBoard == BoardInit /\ StoreInit /\ AstarIdle /\ OptIdle /\ RouteIdle /\ AutoIdle

SpecBoard == InitBoard /\ [][BoardNext]_vars


\* ------------------------------------------- properties of the board queries

\* C11: no cell that the grid search treats as allowed for a net (the cells of
\* _get_net_cells, expanded by the trace radius as astar_search expands them)
\* is a cell that a different-net object of the layer blocks.
C11_AllowedNeverBlocked ==
    board_out.op = "allowed_cells" => board_out.blocked_allowed = {}

\* The search for net 1 with a 0.1 mm trace is allowed into the cell (13, 7),
\* 0.175 mm from the corner of the net-2 pad at (0.5, 0).
C11_AllowedCellBlocked ==
    /\ board_out.op = "allowed_cells"
    /\ board_out.layer = "F.Cu" /\ board_out.net_id = 1 /\ board_out.trace_radius = 10
    /\ board.pads[2].x = 100 /\ board.pads[2].y = 0 /\ board.pads[2].shape = "rect"
    /\ board.pads[2].angle = 0
    /\ board.traces = << >>
    /\ board_out.allowed_at_pad
    /\ <<13, 7>> \in board_out.blocked_allowed

\* C19: in an obstacle grid built with allowed_net_id = N, is_blocked at a point
\* of a pad of the layer is false when the pad's net is N and true when it is
\* another net.
C19_SameNetTransparent ==
    (board_out.op = "is_blocked" /\ board_out.allowed_net_id # NoNet /\ board_out.radius = 0)
    => \A i \in DOMAIN board.pads :
          (board_out.layer \in board.pads[i].layers /\ board_out.point \in PadPoints(board.pads[i]))
          => (board_out.blocked <=> board.pads[i].net_id # board_out.allowed_net_id)

\* The point (0.05, 0) on the edge of the net-1 pad is blocked in the grid built
\* for net 1: the net-2 pad, 0.205 mm away, wrote its cell.
C19_OwnPadPointBlocked ==
    /\ board_out.op = "is_blocked"
    /\ board_out.allowed_net_id = 1 /\ board_out.radius = 0 /\ board_out.layer = "F.Cu"
    /\ board_out.point = <<10, 0>>
    /\ board.pads[2].x = 61
    /\ board.traces = << >> /\ board.vias = << >>
    /\ board_out.blocked

\* C18: check_via_placement at the centre of a pad returns ok when called with
\* the pad's net, and a violation naming a layer of the pad when called with
\* another net.
C18_ViaAtPadCentre ==
    board_out.op = "check_via_placement"
    => \A i \in DOMAIN board.pads :
          board_out.point = <<board.pads[i].x, board.pads[i].y>>
          => /\ board_out.net_id = board.pads[i].net_id => board_out.result.valid
             /\ board_out.net_id # board.pads[i].net_id =>
                   (~board_out.result.valid /\ board_out.result.layer \in board.pads[i].layers)

\* With the cached grids, a via of radius 0.155 mm at the centre of the net-1
\* pad, asked for net 1, is refused on F.Cu although the net-2 pad's copper is
\* 0.45 mm from the centre.
C18_OwnNetViaRefused ==
    /\ board_out.op = "check_via_placement"
    /\ ~board.use_element_aware /\ board.cache_obstacles /\ board.use_legacy_astar
    /\ board_out.point = <<0, 0>> /\ board_out.net_id = 1
    /\ board.pads[2].x = 100 /\ board.pads[2].y = 0 /\ board.pads[2].shape = "rect"
    /\ board.pads[2].angle = 0
    /\ board.traces = << >> /\ board.vias = << >>
    /\ board_out.result = [valid |-> FALSE, layer |-> "F.Cu"]

\* The request of the last route_trace call.
LastRequest == board_out.request

\* C12: when the start point and the end point of a route request resolve
\* through find_net_at_point to two different nets and the caller did not skip
\* the endpoint check, the request is rejected with the different-net message
\* naming both nets, and no path is returned.
C12_DifferentNetsRejected ==
    (/\ board_out.op = "route_trace"
     /\ ~LastRequest.skip_endpoint_check
     /\ find_net_at_point(board, LastRequest.start[1], LastRequest.start[2], LastRequest.layer) # NoNet
     /\ find_net_at_point(board, LastRequest.end[1], LastRequest.end[2], LastRequest.layer) # NoNet
     /\ find_net_at_point(board, LastRequest.start[1], LastRequest.start[2], LastRequest.layer)
           # find_net_at_point(board, LastRequest.end[1], LastRequest.end[2], LastRequest.layer))
    => /\ ~board_out.response.passed
       /\ board_out.response.path = << >>
       /\ board_out.response.message =
             [text |-> "Cannot route to different net",
              endpoint_on |-> NetName(board, find_net_at_point(board, LastRequest.end[1], LastRequest.end[2],
                                                               LastRequest.layer)),
              routing_from |-> NetName(board, find_net_at_point(board, LastRequest.start[1], LastRequest.start[2],
                                                                LastRequest.layer))]

\* A request from the centre of the net-1 pad to the centre of the net-2 pad
\* that names net 2 does not get the different-net message.
C12_WrongNetNamed ==
    /\ board_out.op = "route_trace"
    /\ ~LastRequest.skip_endpoint_check
    /\ LastRequest.start = <<0, 0>>
    /\ LastRequest.end = <<board.pads[2].x, board.pads[2].y>>
    /\ "F.Cu" \in board.pads[2].layers
    /\ LastRequest.net_id = 2
    /\ board.vias = << >>
    /\ \/ board_out.response.passed
       \/ board_out.response.message.text # "Cannot route to different net"

\* The net the last request is routed with: the one it names, or the one found
\* at its start.
RoutingNet ==
    IF LastRequest.net_id # NoNet THEN LastRequest.net_id
    ELSE find_net_at_point(board, LastRequest.start[1], LastRequest.start[2], LastRequest.layer)

\* The start, or the end, of the last request lies inside a different-net
\* blocked region at the requested width.
StartInBlockedRegion ==
    element_is_blocked(board, LastRequest.layer, LastRequest.start[1], LastRequest.start[2],
                       LastRequest.width \div 2, RoutingNet)

EndInBlockedRegion ==
    element_is_blocked(board, LastRequest.layer, LastRequest.end[1], LastRequest.end[2],
                       LastRequest.width \div 2, RoutingNet)

\* C13: a route request whose start or end centre lies inside a different-net
\* blocked region at the requested width is rejected with no path, whether or
\* not the endpoint-net check is skipped; unless the different-net rejection
\* came first, the message tells a blocked start from a blocked end.
C13_BlockedEndpointRejected ==
    (board_out.op = "route_trace" /\ (StartInBlockedRegion \/ EndInBlockedRegion))
    => /\ ~board_out.response.passed
       /\ board_out.response.path = << >>
       /\ \/ board_out.response.message.text = "Cannot route to different net"
          \/ board_out.response.message.text =
                (IF StartInBlockedRegion /\ EndInBlockedRegion THEN "Both start and end points are blocked"
                 ELSE IF StartInBlockedRegion THEN "Start point is blocked (inside obstacle/clearance zone)"
                 ELSE "End point is blocked (inside obstacle/clearance zone)")

\* With the endpoint check skipped, a request of net 1 that ends on the centre
\* of the net-2 pad passes the guards and is routed.
C13_BlockedEndRouted ==
    /\ board_out.op = "route_trace"
    /\ LastRequest.skip_endpoint_check
    /\ LastRequest.start = <<0, 0>> /\ LastRequest.net_id = 1
    /\ LastRequest.end = <<board.pads[2].x, board.pads[2].y>>
    /\ "F.Cu" \in board.pads[2].layers
    /\ EndInBlockedRegion
    /\ board_out.response.passed


\* ------------------------------------------------ the optimizer's endpoints
\* C21: for every input path of at least 2 points, the path that optimize
\* returns has the first point and the last point of the input, exactly; the
\* dedup pass never drops the last point, however close it is to the point kept
\* before it.
C21_OptimizeKeepsEndpoints ==
    (opt_pc = "done" /\ Len(opt_in) >= 2) =>
        (/\ Len(opt_points) >= 2
         /\ opt_points[1] = opt_in[1]
         /\ opt_points[Len(opt_points)] = opt_in[Len(opt_in)])

\* optimize has returned a path that ends at the input's last but one point: the
\* last point, 0.0005 mm further, was dropped by the dedup pass.
C21_LastPointDropped ==
    /\ opt_pc = "done"
    /\ opt_in = << <<0, 0>>, <<400, 0>>, <<400, 1>> >>
    /\ opt_points = << <<0, 0>>, <<400, 0>> >>


\* ------------------------------------------------- the cells of a grid path
\* C24: every cell on a path returned by a grid search, other than the start and
\* the goal, is inside the board's bounds and not blocked (in the blocked or the
\* extra set and not allowed); the goal is the only blocked cell the search
\* steps into: every cell that was given a parent is in bounds and, unless it is
\* the goal, not blocked.
C24_PathCellsFree ==
    /\ \A c \in DOMAIN came_from : InBounds(c) /\ (is_blocked(c) => c = end_g)
    /\ astar_out.pc = "done" =>
           \A i \in 2..(Len(astar_out.raw_path) - 1) :
               /\ InBounds(astar_out.raw_path[i])
               /\ ~is_blocked(astar_out.raw_path[i])

\* A returned path of three cells or more that ends on a blocked goal and is
\* longer than the straight way, which blocked cells close.
C24_AroundToBlockedGoal ==
    /\ astar_out.pc = "done"
    /\ Len(astar_out.raw_path) >= 3
    /\ is_blocked(end_g)
    /\ \E c \in DOMAIN came_from : c # end_g /\ \E d \in 1..8 :
           LET n == <<c[1] + DIRECTIONS[d][1], c[2] + DIRECTIONS[d][2]>>
           IN  InBounds(n) /\ is_blocked(n) /\ n # end_g /\ n # start_g


\* ------------------------------------------------------ progress of a walk
\* An iteration of the loop of _route_segment has walked around a hull.
WalkedAround ==
    /\ route_out.pc = "walk"
    /\ walk'.iterations = walk.iterations + 1
    /\ ~walk'.success
    /\ walk'.path # walk.path

\* C25: an iteration of the walkaround loop counts as progress (it resets the
\* stall counter and updates the best distance) only if the new distance to the
\* goal is at least 5% smaller than the best distance seen so far, that is
\* 400 * new^2 <= 361 * best^2; every other iteration increments the stall counter.
C25_ProgressNeedsFivePercent ==
    [][WalkedAround =>
          IF 400 * DistSq(walk'.current, walk.goal) <= 361 * walk.best_dist_sq
          THEN /\ walk'.stall_count = 0
               /\ walk'.best_dist_sq = DistSq(walk'.current, walk.goal)
          ELSE /\ walk'.stall_count = walk.stall_count + 1
               /\ walk'.best_dist_sq = walk.best_dist_sq]_vars


\* The first iteration has been counted as progress (the best distance is the
\* new one, the stall counter is 0) although the new distance to the goal is
\* less than 5% smaller than the distance at the start.
C25_SmallGainCounted ==
    /\ route_out.pc = "walk"
    /\ walk.iterations = 1
    /\ Len(walk.path) > 1
    /\ walk.stall_count = 0
    /\ walk.best_dist_sq = DistSq(walk.current, walk.goal)
    /\ 400 * walk.best_dist_sq > 361 * DistSq(walk.path[1], walk.goal)


\* ------------------------------------------------------- walked hulls
\* C26: if the closest blocking hull was already walked since the last iteration
\* that counted as progress, the planner attempts an escape step (and fails if no
\* escape point is free) instead of walking it again.  On a board with a single
\* hull, a stall counter above 0 says that this hull was walked in the iteration
\* before, without progress: the next iteration that finds the goal blocked then
\* adds at most the escape point to the path and leaves the stall counter alone.
C26_WalkedHullEscaped ==
    [][(/\ route_out.pc = "walk"
        /\ Len(hull_map.hulls) = 1
        /\ walk.stall_count > 0
        /\ walk'.iterations = walk.iterations + 1
        /\ ~walk'.success) =>
           /\ Len(walk'.path) <= Len(walk.path) + 1
           /\ walk'.stall_count = walk.stall_count
           /\ walk'.best_dist_sq = walk.best_dist_sq]_vars

\* The only hull of the board has been walked in two iterations in a row that did
\* not count as progress, and the set of visited hulls is empty again.
C26_SameHullWalkedAgain ==
    /\ route_out.pc = "walk"
    /\ Len(hull_map.hulls) = 1
    /\ walk.stall_count = 2
    /\ walk.iterations = 3
    /\ walk.visited_hulls = {}
    /\ Len(walk.path) > 3


\* ------------------------------------------------- the choice of a direction
\* The closest blocking hull at the top of the loop of _route_segment, with its
\* two walks; << >> when the loop is not about to walk a hull.
WalkChoice ==
    IF route_out.pc = "walk" /\ walk.iterations < route_in.max_iterations
    THEN LET b == find_first_blocking_hull(RouteCtx, walk.current, walk.goal)
         IN  IF b = << >> THEN << >>
             ELSE << [cw |-> walk_hull(RouteCtx, b[1].hull.points, b[1].pt, b[1].edge_idx, TRUE),
                      ccw |-> walk_hull(RouteCtx, b[1].hull.points, b[1].pt, b[1].edge_idx, FALSE)] >>
    ELSE << >>

\* The path has a point from which the goal is directly visible.
ReachesGoal(path) == \E i \in 1..Len(path) : can_reach(RouteCtx, path[i], walk.goal)

\* C27: when exactly one of the two walk directions reaches a point from which
\* the goal is directly visible, that direction is chosen; the total of length
\* and remaining distance only decides between two directions that both reach
\* such a point; when neither does, the direction whose final vertex is the
\* closer to the goal is chosen.
C27_VisibleDirectionChosen ==
    \A c \in { WalkChoice[i] : i \in DOMAIN WalkChoice } :
        LET chosen == choose_best_path(RouteCtx, c.cw, c.ccw)
            End(p) == DistSq(p[Len(p)], walk.goal)
        IN  /\ (ReachesGoal(c.cw) /\ ~ReachesGoal(c.ccw)) =>
                   chosen = truncate_to_best_point(RouteCtx, c.cw)
            /\ (ReachesGoal(c.ccw) /\ ~ReachesGoal(c.cw)) =>
                   chosen = truncate_to_best_point(RouteCtx, c.ccw)
            /\ (~ReachesGoal(c.cw) /\ ~ReachesGoal(c.ccw) /\ c.cw # << >> /\ c.ccw # << >>) =>
                   \/ chosen = c.cw /\ End(c.cw) <= End(c.ccw)
                   \/ chosen = c.ccw /\ End(c.ccw) <= End(c.cw)


\* Neither direction reaches a point that sees the goal, and the direction
\* chosen is the one whose final vertex is the farther from the goal: its total
\* of length and remaining distance is the smaller one.
C27_FartherVertexChosen ==
    /\ WalkChoice # << >>
    /\ walk.iterations = 0
    /\ ~ReachesGoal(WalkChoice[1].cw)
    /\ ~ReachesGoal(WalkChoice[1].ccw)
    /\ WalkChoice[1].cw # << >>
    /\ WalkChoice[1].ccw # << >>
    /\ \E chosen \in { choose_best_path(RouteCtx, WalkChoice[1].cw, WalkChoice[1].ccw) },
          other \in { WalkChoice[1].cw, WalkChoice[1].ccw } :
          DistSq(chosen[Len(chosen)], walk.goal) > DistSq(other[Len(other)], walk.goal)


\* ------------------------------------------------ the grid of the hull map
\* The cells that the bounding box of a hull overlaps.
BoxCells(h) ==
    { <<cx, cy>> : cx \in cell_coords(h.min_x)..cell_coords(h.max_x),
                   cy \in cell_coords(h.min_y)..cell_coords(h.max_y) }

\* The hull is in the list of the cell.
Indexed(g, c, h) == c \in DOMAIN g /\ \E k \in 1..Len(g[c]) : g[c][k].uid = h.uid

\* The grid indexes the hulls of the list under the cells of their boxes and
\* under no other cell, and nothing else.
GridReflects(hulls, g) ==
    /\ \A i \in 1..Len(hulls) :
           /\ \E c \in DOMAIN g : Indexed(g, c, hulls[i])
           /\ IsFinite(<<hulls[i].min_x, hulls[i].max_x>>) =>
                  \A c \in (DOMAIN g) \cup BoxCells(hulls[i]) :
                      Indexed(g, c, hulls[i]) <=> c \in BoxCells(hulls[i])
    /\ \A c \in DOMAIN g : \A k \in 1..Len(g[c]) :
           \E i \in 1..Len(hulls) : hulls[i] = g[c][k]

\* C28: after any sequence of add_pending_trace and clear_pending_hulls calls on
\* a hull map, the grid indexes exactly the hulls of the current hull list, each
\* under every cell its bounding box overlaps and under no other cell, and the
\* permanent hulls are the hulls the map was built with, in the same order.
C28_GridReflectsHulls ==
    /\ GridReflects(hull_map.hulls, hull_map.grid)
    /\ SelectSeq(hull_map.hulls, LAMBDA h : h.source_type # "pending")
           = build_hulls(RoutePads, RouteLayer,
                         [hulls |-> << >>, pending_hulls |-> << >>, grid |-> << >>]).hulls

\* add_pending_trace has been left by an exception: the hull of the segment
\* with a coordinate that is not finite is in the hull list and in no cell.
C28_HullNotIndexed ==
    /\ route_out.pc = "done"
    /\ route_out.outcome = "raised"
    /\ \E i \in 1..Len(hull_map.hulls) :
           /\ hull_map.hulls[i].source_type = "pending"
           /\ \A c \in DOMAIN hull_map.grid : ~Indexed(hull_map.grid, c, hull_map.hulls[i])
    /\ \E i \in 1..Len(hull_map.hulls) :
           /\ hull_map.hulls[i].source_type = "pending"
           /\ \E c \in DOMAIN hull_map.grid : Indexed(hull_map.grid, c, hull_map.hulls[i])


\* ------------------------------------------ the optimizer and the hull map
\* No segment of the path crosses a hull of a different net, under the
\* optimizer's own clearance check against the hull map of the running call.
AllSegmentsClear(path) ==
    \A i \in 1..(Len(path) - 1) : path_clear(RouteCtx, path[i], path[i + 1])

\* C29: when a hull map is supplied and no segment of the input path crosses a
\* different-net hull, no segment of the path returned by optimize crosses a
\* different-net hull.
C29_OptimizedPathClear ==
    [][(/\ route_out.pc = "walked"
        /\ route_out'.pc = "done"
        /\ route_out'.outcome = "path"
        /\ route_in.reference_path = << >>
        /\ AllSegmentsClear(WalkaroundResult.path)) =>
           AllSegmentsClear(route_out'.path)]_vars


\* A route without a net has been returned whose walkaround path was the clear
\* line from the start to the end, between the pad's hull and the hull of a
\* pending trace, and whose optimized path crosses the hull of the pad.
C29_OptimizedCrossesPad ==
    /\ RouteReturnedPath
    /\ ~route_out.walk_failed
    /\ route_in.net_id = NoNet
    /\ route_out.path = << <<105, -300>>, <<55, -250>>, <<55, 250>> >>
    /\ get_blocking_hulls(hull_map.grid, <<105, -300>>, <<55, 250>>,
                          route_in.width, route_in.net_id) = << >>
    /\ get_blocking_hulls(hull_map.grid, <<55, -250>>, <<55, 250>>,
                          route_in.width, route_in.net_id) # << >>


\* ------------------------------------------- the cache of expanded blocked cells

\* grid_resolution of the obstacle maps, 0.025 mm, in the unit of the radii
\* passed to get_expanded_blocked here, 0.0001 mm.
ExpandResolution == 250

\* The radii asked for: none, 0.0499, 0.05 and 0.0501 mm (traces of width
\* 0.0998, 0.1 and 0.1002 mm) and 0.0625 mm.
ExpandRadii == {0, 499, 500, 501, 625}

\* The boards of two pads 0.305 mm apart, without traces and vias, whose
\* router keeps one obstacle map per copper layer.
ExpandBoards == { b \in Boards : b.cache_obstacles /\ b.pads[2].x = 61 /\ b.traces = << >> }

\* ObstacleMap._blocked of the cached map of a layer, as one set.
blocked_set(b, layer) ==
    LET blocked == build_obstacles(b, layer, NoNet)
    IN  UNION { blocked[i] : i \in DOMAIN blocked }

\* get_expanded_blocked, lines 289 and 295: the cache key and the radius of the
\* dilation in cells.
expanded_key(radius) == RoundHalfEven(radius * 100, ExpandResolution)

actual_grid_radius(radius) == (radius + ExpandResolution - 1) \div ExpandResolution

\* get_expanded_blocked, lines 296-303: every cell within actual_grid_radius
\* cells of a blocked cell.
expand_blocked(blocked, radius) ==
    UNION { CellDisk(c, actual_grid_radius(radius)) : c \in blocked }

\* ObstacleMap.get_expanded_blocked(radius) on the cached map of a layer.
get_expanded_blocked(layer, radius) ==
    LET cache == expanded_cache[layer]
        grid_radius == expanded_key(radius)
        expanded == expand_blocked(blocked_set(board, layer), radius)
    IN  /\ board_out.op \in {"built", "get_expanded_blocked"}
        /\ IF radius <= 0
           THEN /\ board_out' = [op |-> "get_expanded_blocked", layer |-> layer, radius |-> radius,
                                 cells |-> blocked_set(board, layer)]
                /\ UNCHANGED expanded_cache
           ELSE IF grid_radius \in DOMAIN cache
           THEN /\ board_out' = [op |-> "get_expanded_blocked", layer |-> layer, radius |-> radius,
                                 cells |-> cache[grid_radius]]
                /\ UNCHANGED expanded_cache
           ELSE /\ expanded_cache' =
                      [expanded_cache EXCEPT ![layer] =
                          [k \in DOMAIN cache \cup {grid_radius} |->
                              IF k = grid_radius THEN expanded ELSE cache[k]]]
                /\ board_out' = [op |-> "get_expanded_blocked", layer |-> layer, radius |-> radius,
                                 cells |-> expanded]
        /\ UNCHANGED <<board, nonBoardVars>>

\* TraceRouter(parser, cache_obstacles=True): one obstacle map per copper layer
\* that has pads, each with an empty _expanded_cache.
ExpandInit ==
    /\ board \in ExpandBoards
    /\ board_out = [op |-> "built"]
    /\ expanded_cache = [layer \in {"F.Cu", "B.Cu"} |-> << >>]

ExpandNext ==
    \E layer \in {"F.Cu", "B.Cu"}, radius \in ExpandRadii : get_expanded_blocked(layer, radius)

InitExpand == ExpandInit /\ StoreInit /\ AstarIdle /\ OptIdle /\ RouteIdle /\ AutoIdle

SpecExpand == InitExpand /\ [][ExpandNext]_vars

\* C30: for every radius r > 0, get_expanded_blocked(r) returns the dilation of
\* the blocked cells that is computed for r itself, whatever radii were asked
\* before on that obstacle map, and an entry of the cache, once written, is not
\* changed.
C30_ServedEqualsOwnDilation ==
    /\ [](board_out.op = "get_expanded_blocked" /\ board_out.radius > 0 =>
             board_out.cells = expand_blocked(blocked_set(board, board_out.layer), board_out.radius))
    /\ [][\A layer \in DOMAIN expanded_cache : \A k \in DOMAIN expanded_cache[layer] :
             /\ k \in DOMAIN expanded_cache'[layer]
             /\ expanded_cache'[layer][k] = expanded_cache[layer][k]]_vars

\* 0.0501 mm was asked after 0.05 mm, or 0.05 mm after 0.0501 mm, and the set
\* of the other radius was served.
C30_OtherRadiusServed ==
    /\ board_out.op = "get_expanded_blocked"
    /\ board_out.radius \in {500, 501}
    /\ board_out.cells # expand_blocked(blocked_set(board, board_out.layer), board_out.radius)
    /\ board_out.cells \in { expand_blocked(blocked_set(board, board_out.layer), r) : r \in {500, 501} }


\* ------------------------------------------------- the hulls of rotated pads

\* The pads a hull map is built for: the 1.7 x 2.0 mm pad of the repository's
\* test, the same pad lying, and a square one; every shape; turned by a
\* multiple of 90 degrees; at the origin and away from it.
HullPads ==
    { [x |-> c[1], y |-> c[2], width |-> size[1], height |-> size[2], angle |-> a, shape |-> s,
       layers |-> {"F.Cu"}, net_id |-> 1] :
         c \in { <<0, 0>>, <<1000, 2000>> },
         size \in { <<340, 400>>, <<400, 340>>, <<40, 40>> },
         a \in {0, -90, 90, 180},
         s \in {"rect", "roundrect", "oval", "circle"} }

\* A parsed board with one pad, for which no hull map is built yet.
HullInit ==
    /\ board \in { [pads |-> <<pad>>, traces |-> << >>, vias |-> << >>, edge_cuts |-> << >>] :
                       pad \in HullPads }
    /\ board_out = [op |-> "idle"]
    /\ expanded_cache = << >>
    /\ hull_map = [hulls |-> << >>, pending_hulls |-> << >>, grid |-> << >>]
    /\ route_in = << >>
    /\ walk = << >>
    /\ route_out = [pc |-> "idle"]

\* HullMap(parser, layer, clearance).
BuildHullMap(layer) ==
    /\ board_out.op = "idle"
    /\ hull_map' = build_hulls(board.pads, layer,
                               [hulls |-> << >>, pending_hulls |-> << >>, grid |-> << >>])
    /\ board_out' = [op |-> "HullMap", layer |-> layer]
    /\ UNCHANGED <<board, expanded_cache, route_in, walk, route_out, storeVars, astarVars, optVars, autoVars>>

HullNext == \E layer \in Layers : BuildHullMap(layer)

InitHull == HullInit /\ StoreInit /\ AstarIdle /\ OptIdle /\ AutoIdle

SpecHull == InitHull /\ [][HullNext]_vars

\* The bounding box of the hull is [cx - hx, cx + hx] x [cy - hy, cy + hy] to
\* within 0.05 mm.
BoxWithin(hull, cx, cy, hx, hy) ==
    /\ Abs(hull.min_x - (cx - hx)) < 10
    /\ Abs(hull.max_x - (cx + hx)) < 10
    /\ Abs(hull.min_y - (cy - hy)) < 10
    /\ Abs(hull.max_y - (cy + hy)) < 10

\* C23: the hull that the hull map builds for a rectangular or rounded-rectangle
\* pad turned by -90 degrees reaches height / 2 + clearance from the pad's centre
\* along x and width / 2 + clearance along y, to within 0.05 mm; for the
\* 1.7 x 2.0 mm pad and a clearance of 0.2 mm that is 1.2 mm along x and 1.05 mm
\* along y.
C23_RotatedPadHullBounds ==
    \A i \in DOMAIN hull_map.hulls :
        LET pad == board.pads[1]
        IN  (board_out.op = "HullMap" /\ pad.shape \in {"rect", "roundrect"} /\ pad.angle = -90) =>
                /\ BoxWithin(hull_map.hulls[i], pad.x, pad.y,
                             pad.height \div 2 + RouterClearance, pad.width \div 2 + RouterClearance)
                /\ (pad.width = 340 /\ pad.height = 400) =>
                       BoxWithin(hull_map.hulls[i], pad.x, pad.y, 240, 210)

\* The hull map of the 1.7 x 2.0 mm rounded-rectangle pad turned by -90 degrees
\* is built, and the hull reaches 1.05 mm along x and 1.2 mm along y.
C23_HullNotTurned ==
    /\ board_out.op = "HullMap"
    /\ Len(hull_map.hulls) = 1
    /\ board.pads[1].shape = "roundrect" /\ board.pads[1].angle = -90
    /\ board.pads[1].width = 340 /\ board.pads[1].height = 400
    /\ BoxWithin(hull_map.hulls[1], board.pads[1].x, board.pads[1].y, 210, 240)


\* ------------------------------------------------------------- AutoRouter
\*
\* auto_route with the TraceRouter it is given taken as it is in the unit tests
\* of the repository, a stand-in whose route and check_via_placement answer
\* anything: every answer is a choice of the step that asks.

\* The calls of auto_route: the start and the end (3 mm apart as in the tests,
\* the same point, 20 mm apart on a slope), the preferred layer, max_vias.
AutoCalls ==
    [start : { <<0, 0>> }, end : { <<600, 0>>, <<0, 0>>, <<2400, 3200>> },
     preferred_layer : {"F.Cu", "In1.Cu"}, max_vias : {1, 2}, via_size : {160}]

\* _generate_via_candidates: the points at 25%, 50% and 75% of the direct line,
\* then the points beside the 50%, the 25% and the 75% point, at 1 mm or a tenth
\* of the length from the line.
generate_via_candidates(start, end) ==
    LET dx == end[1] - start[1]
        dy == end[2] - start[2]
        length == ISqrt(dx * dx + dy * dy)
        along(t) == <<start[1] + RoundHalfEven(t * dx, 4), start[2] + RoundHalfEven(t * dy, 4)>>
        offset == Max2(200, RoundHalfEven(length, 10))
        dir_norm == normalized(<<dx, dy>>)
        perp == <<-dir_norm[2], dir_norm[1]>>
    IN  IF dx = 0 /\ dy = 0 THEN << start >>
        ELSE << along(1), along(2), along(3),
                Offset(along(2), perp, offset), Offset(along(2), perp, -offset),
                Offset(along(1), perp, offset), Offset(along(1), perp, -offset),
                Offset(along(3), perp, offset), Offset(along(3), perp, -offset) >>

\* The elements of a sequence of sequences, one after the other.
RECURSIVE Flatten(_)
Flatten(ss) == IF ss = << >> THEN << >> ELSE Head(ss) \o Flatten(Tail(ss))

\* The layers a loop over COPPER_LAYERS visits when it skips the preferred one.
OtherLayers(preferred_layer) == SelectSeq(COPPER_LAYERS, LAMBDA layer : layer # preferred_layer)

\* The calls with the single-via candidates made before the other layers.
AutoAttemptsViaFirst(call) ==
    LET others == OtherLayers(call.preferred_layer)
        via_candidates == generate_via_candidates(call.start, call.end)
        n == Len(via_candidates)
        single == << [strategy |-> 1, layers |-> <<call.preferred_layer>>, vias |-> << >>] >>
        alternate == [i \in DOMAIN others |-> [strategy |-> 2, layers |-> <<others[i]>>, vias |-> << >>]]
        with_via(v) ==
            [i \in DOMAIN others |->
                [strategy |-> 3, layers |-> <<call.preferred_layer, others[i]>>,
                 vias |-> <<via_candidates[v]>>]]
        with_double_via(v1, v2) ==
            IF via_candidates[v1] = via_candidates[v2] THEN << >>
            ELSE [i \in DOMAIN others |->
                    [strategy |-> 4,
                     layers |-> <<call.preferred_layer, others[i], call.preferred_layer>>,
                     vias |-> <<via_candidates[v1], via_candidates[v2]>>]]
    IN  single
        \o Flatten([v \in 1..n |-> with_via(v)])
        \o alternate
        \o (IF call.max_vias >= 2
            THEN Flatten([v1 \in 1..n |-> Flatten([v2 \in 1..n |-> with_double_via(v1, v2)])])
            ELSE << >>)

\* The _try_ calls that auto_route makes when none of them succeeds, in the
\* order in which its four strategies make them.
AutoAttempts(call) ==
    LET others == OtherLayers(call.preferred_layer)
        via_candidates == generate_via_candidates(call.start, call.end)
        n == Len(via_candidates)
        single == << [strategy |-> 1, layers |-> <<call.preferred_layer>>, vias |-> << >>] >>
        alternate == [i \in DOMAIN others |-> [strategy |-> 2, layers |-> <<others[i]>>, vias |-> << >>]]
        with_via(v) ==
            [i \in DOMAIN others |->
                [strategy |-> 3, layers |-> <<call.preferred_layer, others[i]>>,
                 vias |-> <<via_candidates[v]>>]]
        with_double_via(v1, v2) ==
            IF via_candidates[v1] = via_candidates[v2] THEN << >>
            ELSE [i \in DOMAIN others |->
                    [strategy |-> 4,
                     layers |-> <<call.preferred_layer, others[i], call.preferred_layer>>,
                     vias |-> <<via_candidates[v1], via_candidates[v2]>>]]
    IN  single \o alternate
        \o Flatten([v \in 1..n |-> with_via(v)])
        \o (IF call.max_vias >= 2
            THEN Flatten([v1 \in 1..n |-> Flatten([v2 \in 1..n |-> with_double_via(v1, v2)])])
            ELSE << >>)

\* auto_route is called: todo is the position in its loops, as the calls they
\* have yet to make.
AutoInit ==
    \E call \in AutoCalls :
        auto = [pc |-> "running", call |-> call, todo |-> AutoAttempts(call),
                attempts |-> << >>, result |-> << >>]

\* What one _try_ call returns.  failed_at is the first call of the router that
\* did not answer with a path or a valid via, 0 when all did.
AutoRouteResult(attempt, failed_at, message) ==
    IF failed_at = 0
    THEN [success |-> TRUE, segments |-> attempt.layers, vias |-> attempt.vias, message |-> message]
    ELSE [success |-> FALSE, segments |-> << >>, vias |-> << >>, message |-> message]

\* auto_route after one _try_ call: it returns the result when that succeeded,
\* goes on with the next call when there is one, and returns its own failure
\* after the last.
AutoAfter(attempt, result) ==
    LET made == Append(auto.attempts,
                       [strategy |-> attempt.strategy, layers |-> attempt.layers,
                        vias |-> attempt.vias, success |-> result.success])
    IN  IF result.success
        THEN auto' = [auto EXCEPT !.pc = "done", !.attempts = made, !.result = result]
        ELSE IF Len(auto.todo) > 1
        THEN auto' = [auto EXCEPT !.todo = Tail(auto.todo), !.attempts = made, !.result = result]
        ELSE auto' = [auto EXCEPT !.pc = "done", !.todo = << >>, !.attempts = made,
                                  !.result = AutoRouteResult(attempt, 1,
                                                 "No valid route found - all paths blocked")]

\* _try_single_layer, for the preferred layer and for each other layer.
try_single_layer(found) ==
    LET attempt == Head(auto.todo)
    IN  /\ auto.pc = "running"
        /\ attempt.strategy \in {1, 2}
        /\ AutoAfter(attempt, AutoRouteResult(attempt, IF found THEN 0 ELSE 1,
                                              IF found THEN "Route found" ELSE "No route"))
        /\ UNCHANGED <<storeVars, astarVars, optVars, routeVars, boardVars>>

\* _try_with_via: the via's placement is checked, then the two routes are asked.
try_with_via(failed_at) ==
    LET attempt == Head(auto.todo)
        messages == <<"Via blocked", "Cannot route to via", "Cannot route from via">>
    IN  /\ auto.pc = "running"
        /\ attempt.strategy = 3
        /\ AutoAfter(attempt, AutoRouteResult(attempt, failed_at,
                                              IF failed_at = 0 THEN "Route found with via"
                                              ELSE messages[failed_at]))
        /\ UNCHANGED <<storeVars, astarVars, optVars, routeVars, boardVars>>

\* _try_with_double_via: both placements are checked, then the three routes are
\* asked.
try_with_double_via(failed_at) ==
    LET attempt == Head(auto.todo)
        messages == <<"Via 1 blocked", "Via 2 blocked", "Cannot route to via1",
                      "Cannot route between vias", "Cannot route from via2">>
    IN  /\ auto.pc = "running"
        /\ attempt.strategy = 4
        /\ AutoAfter(attempt, AutoRouteResult(attempt, failed_at,
                                              IF failed_at = 0 THEN "Route found with 2 vias"
                                              ELSE messages[failed_at]))
        /\ UNCHANGED <<storeVars, astarVars, optVars, routeVars, boardVars>>

AutoNext ==
    \/ \E found \in BOOLEAN : try_single_layer(found)
    \/ \E failed_at \in 0..3 : try_with_via(failed_at)
    \/ \E failed_at \in 0..5 : try_with_double_via(failed_at)

InitAuto == AutoInit /\ StoreInit /\ AstarIdle /\ OptIdle /\ RouteIdle /\ BoardIdle

SpecAuto == InitAuto /\ [][AutoNext]_vars

\* The attempts made so far with one strategy, as layers and via positions.
AttemptsOf(strategy) ==
    { <<auto.attempts[i].layers, auto.attempts[i].vias>> :
          i \in { j \in DOMAIN auto.attempts : auto.attempts[j].strategy = strategy } }

\* Every attempt that a strategy has to offer for the running call: the
\* preferred layer; every other copper layer; every via candidate with every
\* other layer.
EveryAttemptOf(strategy) ==
    LET call == auto.call
        others == { layer \in {COPPER_LAYERS[i] : i \in DOMAIN COPPER_LAYERS} :
                        layer # call.preferred_layer }
        candidates == generate_via_candidates(call.start, call.end)
        points == { candidates[i] : i \in DOMAIN candidates }
    IN  IF strategy = 1 THEN { << <<call.preferred_layer>>, << >> >> }
        ELSE IF strategy = 2 THEN { << <<layer>>, << >> >> : layer \in others }
        ELSE { << <<call.preferred_layer, layer>>, <<p>> >> : layer \in others, p \in points }

\* C22: auto_route attempts the preferred layer, then each other copper layer,
\* then the single-via candidates, then the double-via candidates; it returns
\* the first success; a later strategy is attempted only after every attempt of
\* all earlier strategies has failed; and when all fail the result is
\* unsuccessful with no segments and no vias.
C22_StrategiesInOrder ==
    auto.pc # "idle" =>
        LET made == auto.attempts
        IN  /\ \A i \in 1..(Len(made) - 1) :
                  /\ made[i].strategy <= made[i + 1].strategy
                  /\ ~made[i].success
            /\ \A s \in 1..3 :
                  (\E i \in DOMAIN made : made[i].strategy > s) =>
                      EveryAttemptOf(s) \subseteq AttemptsOf(s)
            /\ (made # << >> /\ made[Len(made)].success) =>
                  /\ auto.pc = "done"
                  /\ auto.result.success
                  /\ auto.result.segments = made[Len(made)].layers
                  /\ auto.result.vias = made[Len(made)].vias
            /\ (auto.pc = "done" /\ ~made[Len(made)].success) =>
                  /\ ~auto.result.success
                  /\ auto.result.segments = << >>
                  /\ auto.result.vias = << >>

\* The preferred layer, the three other layers and the 27 attempts with one via
\* have failed, and an attempt with two vias was returned as the result.
C22_DoubleViaAfterAllOthers ==
    /\ auto.pc = "done"
    /\ auto.result.success
    /\ Len(auto.result.vias) = 2
    /\ Len(auto.attempts) > 31
    /\ { auto.attempts[i].strategy : i \in DOMAIN auto.attempts } = 1..4

====
